---- MODULE Spec2Model ----
(***************************************************************************)
(* A model of the internet-roadtrip pathfinder: the heading-aware A*       *)
(* search (src/src/astar.rs), the options engine it expands nodes with     *)
(* (src/src/roadtrip.rs) and the waypoint orchestrator that runs one A*    *)
(* task per segment and merges their progress (src/src/web/path.rs).       *)
(*                                                                         *)
(* Units.  Locations are points <<lat, lng>> of a plane in whole metres    *)
(* (north, east), headings are whole degrees, costs are whole              *)
(* milliseconds (5.875 s is 5875), percent_done is in thousandths          *)
(* (1.0 is 1000).                                                          *)
(***************************************************************************)
EXTENDS Integers, Sequences, FiniteSets, TLC

(***************************************************************************)
(* Bounds of the model.                                                    *)
(***************************************************************************)
\* panos of the world, laid out as a ladder two panos high
NPanos == 5
\* metres between neighbouring panos of the ladder
Spacing == 20
\* published links per pano
MaxLinks == 1
\* tasks that intern pano ids at the same time
NCallers == 2

\* the side of a small tile, in metres
SmallTileSide == 400

\* the number of panos in an answer from which upstream may have left some out
TooManyPanos == 3

(***************************************************************************)
(* Program constants.                                                      *)
(***************************************************************************)
\* astar.rs:79  came_from of the start node (u32::MAX)
SENTINEL == -1
\* astar.rs:88  heuristic_of_best_node starts at Cost::MAX (f32::MAX)
COST_MAX == 1000000
\* astar.rs:214 / 215 / 244  base delays and the forward tiebreaker, in ms
BASE_COST_SINGLE == 5875
BASE_COST_MULTI == 9625
FORWARD_TIEBREAK == 1
\* astar.rs:234  jump_limit
JUMP_LIMIT == 500
\* astar.rs:132  progress is published every 1024 expansions
PROGRESS_EVERY == 1024
\* lib.rs:17  percent_done = 1.0
PERCENT_ONE == 1000
\* milliseconds per second: the unit of Cost
MS == 1000
\* astar.rs:26-28  heuristic factors, in tenths
MIN_HEURISTIC_FACTOR == 10
RECOMMENDED_HEURISTIC_FACTOR == 33
MAX_HEURISTIC_FACTOR == 40
\* astar.rs:340 / 342 / 348  radii of the goal test and the step behind
GOAL_NEAR == 30
GOAL_REACHED == 15
\* astar.rs:223 / 249  heading window of "forward" at an intersection
INTERSECTION_WINDOW == 30
\* roadtrip.rs:20
MAX_SEARCH_RADIUS == 82
\* roadtrip.rs:110 / 184  forward distance of the probes and of reach-further
PROBE_DISTANCE == 13
FURTHER_DISTANCE_ALONE == 20
FURTHER_DISTANCE_SIDE_CHECK == 30
\* roadtrip.rs:91, 132, 176  heading windows
MAX_HEADING_DIFF == 100
MIN_OPTION_HEADING_GAP == 15
FURTHER_STRAIGHT_WINDOW == 20
\* astar.rs:57  radius within which the start is snapped to a pano
START_SNAP_RADIUS == 500

(***************************************************************************)
(* Arithmetic and geometry (src/src/math/mod.rs).  A Location is           *)
(* <<lat, lng>>: metres north and metres east of the origin of the plane.  *)
(***************************************************************************)
Abs(x) == IF x < 0 THEN -x ELSE x

\* the element of a one-element set: { F(v) : v \in {e} } computes e once
\* before F uses it
The(S) == CHOOSE r \in S : TRUE

Min(a, b) == IF a < b THEN a ELSE b

Max(a, b) == IF a > b THEN a ELSE b

\* Rust's % on numbers: the remainder has the sign of the dividend
Rem(a, n) == IF a >= 0 THEN a % n ELSE -((-a) % n)

\* v / 1000 rounded to the nearest integer
RoundMilli(v) == IF v >= 0 THEN (v + 500) \div 1000 ELSE -((-v + 500) \div 1000)

RECURSIVE SqrtSearch(_, _, _)
SqrtSearch(n, lo, hi) ==
    IF lo >= hi THEN lo
    ELSE The({IF mid * mid <= n THEN SqrtSearch(n, mid, hi)
              ELSE The({SqrtSearch(n, lo, below) : below \in {mid - 1}}) :
              mid \in {(lo + hi + 1) \div 2}})

\* floor of the square root
ISqrt(n) == The({SqrtSearch(v, 0, Min(v, 40000)) : v \in {n}})

\* 1000 * sin of 0..90 degrees
SinTable ==
    << 0, 17, 35, 52, 70, 87, 105, 122, 139, 156, 174, 191, 208,
       225, 242, 259, 276, 292, 309, 326, 342, 358, 375, 391, 407, 423,
       438, 454, 469, 485, 500, 515, 530, 545, 559, 574, 588, 602, 616,
       629, 643, 656, 669, 682, 695, 707, 719, 731, 743, 755, 766, 777,
       788, 799, 809, 819, 829, 839, 848, 857, 866, 875, 883, 891, 899,
       906, 914, 921, 927, 934, 940, 946, 951, 956, 961, 966, 970, 974,
       978, 982, 985, 988, 990, 993, 995, 996, 998, 999, 999, 1000, 1000 >>

\* a direction brought into [0, 360)
NormDeg(d) == Rem(Rem(d, 360) + 360, 360)

SinMilli(deg) ==
    LET d == NormDeg(deg)
    IN IF d <= 90 THEN SinTable[d + 1]
       ELSE IF d <= 180 THEN SinTable[180 - d + 1]
       ELSE IF d <= 270 THEN -SinTable[d - 180 + 1]
       ELSE -SinTable[360 - d + 1]

CosMilli(deg) == SinMilli(deg + 90)

\* approx_distance_sqr: the planar squared distance
ApproxDistanceSqr(a, b) ==
    (a[1] - b[1]) * (a[1] - b[1]) + (a[2] - b[2]) * (a[2] - b[2])

\* underestimate_distance_sqr: both axes shortened by the factor 0.999
UnderestimateDistanceSqr(a, b) ==
    LET sqr == ApproxDistanceSqr(a, b)
    IN sqr - (2 * sqr + 999) \div 1000

\* distance: metres between two locations
Distance(a, b) ==
    IF a[1] = b[1] THEN Abs(a[2] - b[2])
    ELSE IF a[2] = b[2] THEN Abs(a[1] - b[1])
    ELSE ISqrt(ApproxDistanceSqr(a, b))

\* calculate_heading_diff
CalculateHeadingDiff(a, b) ==
    LET diff == Abs(Rem(a, 360) - Rem(b, 360))
    IN IF diff > 180 THEN 360 - diff ELSE diff

RECURSIVE OctantScan(_, _, _)
\* the first angle from phi on at which small / large no longer exceeds the
\* tangent, or the angle before it when that one is nearer
OctantScan(small, large, phi) ==
    LET over == small * CosMilli(phi) - large * SinMilli(phi)
        before == small * CosMilli(phi - 1) - large * SinMilli(phi - 1)
    IN IF phi < 45 /\ over > 0
       THEN The({OctantScan(small, large, next) : next \in {phi + 1}})
       ELSE IF phi > 0 /\ Abs(before) <= Abs(over) THEN phi - 1
       ELSE phi

\* the angle in 0..45 whose tangent is nearest to small / large
OctantAngle(small, large) ==
    IF small = 0 THEN 0
    ELSE IF small = large THEN 45
    ELSE The({OctantScan(p[1], p[2], 0) : p \in {<<small, large>>}})

\* calculate_heading: the bearing from origin to dest in whole degrees of
\* [0, 360), atan2(east, north)
CalculateHeading(origin, dest) ==
    LET north == dest[1] - origin[1]
        east == dest[2] - origin[2]
        an == Abs(north)
        ae == Abs(east)
        acute == IF ae <= an THEN OctantAngle(ae, an) ELSE 90 - OctantAngle(an, ae)
    IN IF north = 0 /\ east = 0 THEN 0
       ELSE IF north >= 0 /\ east >= 0 THEN acute
       ELSE IF north < 0 /\ east >= 0 THEN 180 - acute
       ELSE IF north < 0 /\ east < 0 THEN 180 + acute
       ELSE NormDeg(360 - acute)

\* point_at_distance
PointAtDistance(pos, direction, distance) ==
    << pos[1] + RoundMilli(distance * CosMilli(direction)),
       pos[2] + RoundMilli(distance * SinMilli(direction)) >>

\* Location::to_geojson: [lng, lat]
ToGeojson(loc) == <<loc[2], loc[1]>>

(***************************************************************************)
(* The spatial index as the options engine sees it                         *)
(* (src/src/streetview/mod.rs).  A tile's pano list is a sequence of       *)
(* PanoWithBothLocations [id, search_loc, actual_loc] sorted by            *)
(* search_loc.lat; a Pano is [id, loc].                                    *)
(***************************************************************************)
\* calculate_lat_bounds: lat_diff is 1.01 * min_distance, so the bounds are
\* in centimetres
CalculateLatBounds(loc, min_distance) ==
    LET lat_diff == min_distance * 101
    IN <<100 * loc[1] - lat_diff, 100 * loc[1] + lat_diff>>

\* is_at_least_within_radius
IsAtLeastWithinRadius(a, b, radius) ==
    IF Abs(a[1] - b[1]) > 2 * radius \/ Abs(a[2] - b[2]) > 2 * radius
    THEN FALSE     \* one axis alone puts the underestimate beyond the radius
    ELSE UnderestimateDistanceSqr(a, b) <= radius * radius

\* a search that ends where it starts
SearchEndsAtBase(panos_at_tile, bound, base, size) == base

RECURSIVE BinarySearchBy(_, _, _, _)
\* slice::binary_search_by with the comparison of filter_panos_at_tile_into,
\* which answers Less for a latitude up to the bound (in centimetres) and
\* Greater above it, so that the search always ends in Err(index): the
\* 0-based index, found by halving the size slots that start at base
BinarySearchBy(panos_at_tile, bound, base, size) ==
    IF size > 1
    THEN LET half == size \div 2
             mid == base + half
         IN BinarySearchBy(panos_at_tile, bound,
                           IF 100 * panos_at_tile[mid + 1].search_loc[1] > bound
                           THEN base ELSE mid,
                           size - half)
    ELSE IF 100 * panos_at_tile[base + 1].search_loc[1] > bound THEN base ELSE base + 1

\* filter_panos_at_tile_into: the two binary searches cut the slice of the
\* panos with min_lat < lat <= max_lat out of a list in latitude order, the
\* filter keeps those of the slice within the radius
FilterPanosAtTile(loc, panos_at_tile, min_lat, max_lat, max_distance) ==
    LET n == Len(panos_at_tile)
        first_within_lat ==
            IF n = 0 THEN 0 ELSE BinarySearchBy(panos_at_tile, min_lat, 0, n)
        first_outside_lat ==
            IF n = 0 THEN 0 ELSE BinarySearchBy(panos_at_tile, max_lat, 0, n)
    IN IF first_within_lat >= n THEN <<>>
       ELSE SelectSeq(SubSeq(panos_at_tile, first_within_lat + 1, first_outside_lat),
                      LAMBDA p : IsAtLeastWithinRadius(loc, p.search_loc, max_distance))

\* get_nearby_panos, over a world whose panos all lie in one tile
GetNearbyPanos(panos_at_tile, loc, min_distance) ==
    LET bounds == CalculateLatBounds(loc, min_distance)
    IN FilterPanosAtTile(loc, panos_at_tile, bounds[1], bounds[2], min_distance)

RECURSIVE NearestScan(_, _, _, _, _)
NearestScan(panos, origin, i, nearest_pano, nearest_pano_distance) ==
    IF i > Len(panos) THEN nearest_pano
    ELSE LET dist == UnderestimateDistanceSqr(origin, panos[i].search_loc)
         IN IF nearest_pano = <<>> \/ dist < nearest_pano_distance
            THEN NearestScan(panos, origin, i + 1,
                             <<[id |-> panos[i].id, loc |-> panos[i].actual_loc]>>, dist)
            ELSE NearestScan(panos, origin, i + 1, nearest_pano, nearest_pano_distance)

\* get_nearest_pano_in_array with max_distance = None: <<>> or <<pano>>
GetNearestPanoInArray(panos, origin) == NearestScan(panos, origin, 1, <<>>, 0)

\* get_nearest_pano
GetNearestPano(panos_at_tile, loc, max_distance) ==
    The({GetNearestPanoInArray(panos, loc) :
         panos \in {GetNearbyPanos(panos_at_tile, loc, max_distance)}})

(***************************************************************************)
(* The options engine (src/src/roadtrip.rs).  An option, like a PanoLink,  *)
(* is [pano, heading].                                                     *)
(***************************************************************************)
\* the candidates of find_closest_pano with the two distances the loop reads
\* of each: the underestimated squared distance, collected before the loop,
\* and the squared distance to loc
Measured(candidate_panos, loc) ==
    [i \in 1..Len(candidate_panos) |->
        [pano |-> candidate_panos[i],
         underestimated |-> UnderestimateDistanceSqr(candidate_panos[i].search_loc, loc),
         distance_sqr |-> ApproxDistanceSqr(candidate_panos[i].search_loc, loc)]]

RECURSIVE ClosestScan(_, _, _, _)
\* the loop of find_closest_pano from candidate i on; distances are compared
\* by their squares
ClosestScan(measured, i, closest_pano, max_dist_sqr) ==
    IF i > Len(measured) THEN closest_pano
    ELSE IF measured[i].underestimated > max_dist_sqr
    THEN ClosestScan(measured, i + 1, closest_pano, max_dist_sqr)
    ELSE IF closest_pano # <<>> /\ ~(measured[i].distance_sqr < max_dist_sqr)
    THEN ClosestScan(measured, i + 1, closest_pano, max_dist_sqr)
    ELSE ClosestScan(measured, i + 1, <<measured[i]>>, measured[i].distance_sqr)

\* a scan that keeps the first candidate it meets within the distance
FirstWithin(measured, max_dist) ==
    LET within == SelectSeq(measured, LAMBDA c : c.underestimated <= max_dist * max_dist)
    IN [closest |-> IF within = <<>> THEN <<>> ELSE <<within[1]>>, panicked |-> FALSE]

\* find_closest_pano over measured candidates: closest is <<>> (None) or
\* <<candidate>>, panicked tells whether the loop ended without a candidate
FindClosestMeasured(measured, max_dist) ==
    IF measured = <<>> THEN [closest |-> <<>>, panicked |-> FALSE]
    ELSE LET nearest == CHOOSE d \in {measured[i].underestimated : i \in 1..Len(measured)} :
                            \A i \in 1..Len(measured) : d <= measured[i].underestimated
             original_max_dist_sqr == max_dist * max_dist
         IN IF nearest > original_max_dist_sqr
            THEN [closest |-> <<>>, panicked |-> FALSE]
            ELSE The({[closest |-> closest_pano, panicked |-> closest_pano = <<>>] :
                      closest_pano \in
                          {ClosestScan(measured, 1, <<>>,
                                       Min((nearest * 1001) \div 1000,
                                           original_max_dist_sqr))}})

\* find_closest_pano: <<>> or <<candidate>>
FindClosestPano(candidate_panos, loc, max_dist) ==
    The({IF found.closest = <<>> THEN <<>> ELSE <<found.closest[1].pano>> :
         found \in {FindClosestMeasured(Measured(candidate_panos, loc), max_dist)}})

\* get_closest_pano_forward: <<>> or <<pano>>, the pano at its actual location
GetClosestPanoForward(origin_loc, origin_pano_offset, direction, forward_distance, candidate_panos) ==
    The({The({IF closest_pano = <<>> THEN <<>>
              ELSE <<[id |-> closest_pano[1].id, loc |-> closest_pano[1].actual_loc]>> :
              closest_pano \in {FindClosestPano(candidate_panos, forward,
                                                forward_distance * 2 + origin_pano_offset)}}) :
         forward \in {PointAtDistance(origin_loc, direction, forward_distance)}})

\* the probe directions without the one straight ahead
SideProbeDirections == <<-45, 45, 90, -90>>

\* the directions probed, relative to the current heading
ProbeDirections == <<0, -45, 45, 90, -90>>

\* origin_pano_offset of get_options_no_turnaround
OriginPanoOffset(cur_pano, nearby_panos) ==
    IF \E i \in 1..Len(nearby_panos) : nearby_panos[i].id = cur_pano.id
    THEN LET i == CHOOSE j \in 1..Len(nearby_panos) :
                      /\ nearby_panos[j].id = cur_pano.id
                      /\ \A k \in 1..(j - 1) : nearby_panos[k].id # cur_pano.id
         IN Distance(nearby_panos[i].actual_loc, nearby_panos[i].search_loc)
    ELSE 0

\* the options seeded from the published links
LinkOptions(links, cur_heading) ==
    SelectSeq(links, LAMBDA link :
                  ~(CalculateHeadingDiff(link.heading, cur_heading) > MAX_HEADING_DIFF))

TooCloseToExistingOption(options, pano, heading) ==
    \E i \in 1..Len(options) :
        \/ options[i].pano.id = pano.id
        \/ options[i].pano.loc = pano.loc
        \/ CalculateHeadingDiff(options[i].heading, heading) < MIN_OPTION_HEADING_GAP

RECURSIVE ProbeOptions(_, _, _, _, _, _)
\* the loop over the five probe directions, from direction k on
ProbeOptions(cur_pano, origin_pano_offset, cur_heading, nearby_panos, options, k) ==
    IF k > Len(ProbeDirections) THEN options
    ELSE The({
        LET next == IF pano = <<>> THEN options
                    ELSE IF pano[1].id = cur_pano.id THEN options
                    ELSE The({
                        IF CalculateHeadingDiff(cur_heading, heading) > MAX_HEADING_DIFF
                        THEN options
                        ELSE IF TooCloseToExistingOption(options, pano[1], heading)
                        THEN options
                        ELSE Append(options, [pano |-> pano[1], heading |-> heading]) :
                        heading \in {CalculateHeading(cur_pano.loc, pano[1].loc)}})
        IN The({ProbeOptions(cur_pano, origin_pano_offset, cur_heading, nearby_panos,
                             n, k + 1) : n \in {next}}) :
        pano \in {GetClosestPanoForward(cur_pano.loc, origin_pano_offset,
                                        cur_heading + ProbeDirections[k],
                                        PROBE_DISTANCE, nearby_panos)}})

\* the side probes of maybe_get_further_straight: how many of the two find a
\* pano that is neither the straight one nor the current one
FilteredSidePanosCount(cur_pano, origin_pano_offset, cur_heading, distance, straight_id, nearby_panos) ==
    Cardinality({direction \in {-45, 45} :
        LET pano == GetClosestPanoForward(cur_pano.loc, origin_pano_offset,
                                          cur_heading + direction,
                                          (distance * 1000) \div 707, nearby_panos)
        IN pano # <<>> /\ pano[1].id # straight_id /\ pano[1].id # cur_pano.id})

\* a reach-further step that changes nothing
NoFurtherStraight(cur_pano, origin_pano_offset, cur_heading, options, nearby_panos) == options

\* maybe_get_further_straight: the options it leaves
MaybeGetFurtherStraight(cur_pano, origin_pano_offset, cur_heading, options, nearby_panos) ==
    IF Len(options) > 1 THEN options
    ELSE IF Len(options) = 1
            /\ CalculateHeadingDiff(options[1].heading, cur_heading)
                   >= FURTHER_STRAIGHT_WINDOW
    THEN options
    ELSE LET side_check == Len(options) = 1
             distance == IF side_check THEN FURTHER_DISTANCE_SIDE_CHECK
                         ELSE FURTHER_DISTANCE_ALONE
             further_straight == GetClosestPanoForward(cur_pano.loc, origin_pano_offset,
                                                       cur_heading, distance, nearby_panos)
             further_straight_heading ==
                 CalculateHeading(cur_pano.loc, further_straight[1].loc)
             straight_pano == [pano |-> further_straight[1],
                               heading |-> further_straight_heading]
         IN IF further_straight = <<>> THEN options
            ELSE IF side_check /\ options[1].pano.id = further_straight[1].id THEN options
            ELSE IF further_straight[1].id = cur_pano.id THEN options
            ELSE IF CalculateHeadingDiff(cur_heading, further_straight_heading)
                        > MAX_HEADING_DIFF
            THEN options
            ELSE IF ~side_check THEN <<straight_pano>>
            ELSE IF FilteredSidePanosCount(cur_pano, origin_pano_offset, cur_heading,
                                           distance, further_straight[1].id,
                                           nearby_panos) = 0
            THEN <<straight_pano>>
            ELSE options

\* get_options_no_turnaround past the option cache: the options computed from
\* the panos near cur_pano.loc and the published links of cur_pano
ComputeOptions(cur_pano, cur_heading, panos_at_tile, links) ==
    The({
        The({The({MaybeGetFurtherStraight(cur_pano, origin_pano_offset, cur_heading,
                                          probed, nearby_panos) :
                  probed \in {ProbeOptions(cur_pano, origin_pano_offset, cur_heading,
                                           nearby_panos, linked, 1)}}) :
             origin_pano_offset \in {OriginPanoOffset(cur_pano, nearby_panos)},
             linked \in {LinkOptions(links, cur_heading)}}) :
        nearby_panos \in {GetNearbyPanos(panos_at_tile, cur_pano.loc, MAX_SEARCH_RADIUS)}})

\* get_getmetadata_links: the links the store holds for the pano, none when
\* it holds no metadata for it
GetGetmetadataLinks(metadata, pano_id) ==
    IF pano_id \in DOMAIN metadata THEN metadata[pano_id] ELSE <<>>

\* the option cache (GET_OPTIONS_CACHE) is a function from the keys it holds,
\* <<cur_heading bits, pano id>>, to option lists
CacheGet(cache, key) == IF key \in DOMAIN cache THEN <<cache[key]>> ELSE <<>>

CacheInsert(cache, key, value) ==
    [k \in DOMAIN cache \cup {key} |-> IF k = key THEN value ELSE cache[k]]

\* get_options_no_turnaround: [options, cache], the result and the option
\* cache the call leaves
GetOptionsNoTurnaround(cur_pano, cur_heading, use_option_cache, cache, panos_at_tile, metadata) ==
    LET key == <<cur_heading, cur_pano.id>>
        hit == CacheGet(cache, key)
    IN IF use_option_cache /\ hit # <<>>
       THEN [options |-> hit[1], cache |-> cache]
       ELSE The({[options |-> options,
                  cache |-> IF use_option_cache THEN CacheInsert(cache, key, options)
                            ELSE cache] :
                 options \in {ComputeOptions(cur_pano, cur_heading, panos_at_tile,
                                             GetGetmetadataLinks(metadata,
                                                                 cur_pano.id))}})

\* a get_options that turns around whatever allow_turnaround says
GetOptionsAlwaysTurning(cur_pano, cur_heading, allow_turnaround, use_option_cache, cache, panos_at_tile, metadata) ==
    The({IF res.options = <<>>
         THEN The({[options |-> flipped.options, turnaround |-> TRUE,
                    cache |-> flipped.cache] :
                   flipped \in {GetOptionsNoTurnaround(cur_pano, cur_heading + 180,
                                                       use_option_cache, res.cache,
                                                       panos_at_tile, metadata)}})
         ELSE [options |-> res.options, turnaround |-> FALSE, cache |-> res.cache] :
         res \in {GetOptionsNoTurnaround(cur_pano, cur_heading, use_option_cache,
                                         cache, panos_at_tile, metadata)}})

\* get_options: [options, turnaround, cache]
GetOptions(cur_pano, cur_heading, allow_turnaround, use_option_cache, cache, panos_at_tile, metadata) ==
    The({IF allow_turnaround /\ res.options = <<>>
         THEN The({[options |-> flipped.options, turnaround |-> TRUE,
                    cache |-> flipped.cache] :
                   flipped \in {GetOptionsNoTurnaround(cur_pano, cur_heading + 180,
                                                       use_option_cache, res.cache,
                                                       panos_at_tile, metadata)}})
         ELSE [options |-> res.options, turnaround |-> FALSE, cache |-> res.cache] :
         res \in {GetOptionsNoTurnaround(cur_pano, cur_heading, use_option_cache,
                                         cache, panos_at_tile, metadata)}})

(***************************************************************************)
(* The A* search (src/src/astar.rs).  A NodeIdent is [pano, heading]; the  *)
(* node map is the sequence of its entries [ident, came_from, g_score] in  *)
(* insertion order (entry i of the IndexMap is element i + 1); the open    *)
(* set is the set of the WeightedNodes [index, g_score, f_score] on the    *)
(* heap.                                                                   *)
(***************************************************************************)
\* heuristic
Heuristic(current, goal, factor) ==
    (Distance(current.pano.loc, goal) * MS * 10) \div factor

\* a goal test without the look behind
WithinGoalReached(node, goal) == Distance(node.pano.loc, goal) < GOAL_REACHED

\* is_goal_reached
IsGoalReached(node, goal) ==
    LET dist == Distance(node.pano.loc, goal)
        behind_loc == PointAtDistance(node.pano.loc, node.heading + 180, GOAL_REACHED)
    IN IF dist < GOAL_NEAR
       THEN IF dist < GOAL_REACHED THEN TRUE
            ELSE Distance(behind_loc, goal) < GOAL_REACHED
       ELSE FALSE

\* PartialEq for NodeIdent
SameNode(a, b) == a.pano.id = b.pano.id /\ a.heading = b.heading

\* the index of the entry of ident in the node map, or the index a new entry
\* would get
EntryIndex(nodes, ident) ==
    IF \E i \in 1..Len(nodes) : SameNode(nodes[i].ident, ident)
    THEN (CHOOSE i \in 1..Len(nodes) : SameNode(nodes[i].ident, ident)) - 1
    ELSE Len(nodes)

RECURSIVE ReconstructWalk(_, _, _)
\* the loop of reconstruct_path with the reversal done; <<>> when the walk
\* leaves the map or does not end within fuel steps
ReconstructWalk(nodes, current, fuel) ==
    IF fuel = 0 \/ current < 0 \/ current >= Len(nodes) THEN <<>>
    ELSE IF nodes[current + 1].came_from = SENTINEL THEN <<nodes[current + 1].ident>>
    ELSE The({IF before = <<>> THEN <<>>
              ELSE Append(before, nodes[current + 1].ident) :
              before \in {The({ReconstructWalk(nodes, a[1], a[2]) :
                               a \in {<<nodes[current + 1].came_from, fuel - 1>>}})}})

\* reconstruct_path
ReconstructPath(nodes, current) == ReconstructWalk(nodes, current, Len(nodes) + 1)

\* the path as published: the geojson point of every node
PathPoints(route) == [i \in 1..Len(route) |-> ToGeojson(route[i].pano.loc)]

\* is_likely_intersection_to_penalize
IsLikelyIntersectionToPenalize(options, node_heading, settings) ==
    /\ Len(options) > 1
    /\ settings.forward_penalty_on_intersections > 0
    /\ \E i \in 1..Len(options) :
           Abs(options[i].heading - node_heading) > INTERSECTION_WINDOW

\* a neighbor_cost without the bonus of the first option
NeighborCostNoTiebreak(options, i, node_heading, settings) ==
    LET base == IF Len(options) = 1 THEN BASE_COST_SINGLE ELSE BASE_COST_MULTI
    IN IF /\ IsLikelyIntersectionToPenalize(options, node_heading, settings)
          /\ Abs(options[i].heading - node_heading) < INTERSECTION_WINDOW
       THEN base + settings.forward_penalty_on_intersections
       ELSE base

\* neighbor_cost of option i (the code's i - 1)
NeighborCost(options, i, node_heading, settings) ==
    LET base == IF Len(options) = 1 THEN BASE_COST_SINGLE ELSE BASE_COST_MULTI
        tiebroken == IF i = 1 /\ Len(options) > 1 THEN base - FORWARD_TIEBREAK ELSE base
    IN IF /\ IsLikelyIntersectionToPenalize(options, node_heading, settings)
          /\ Abs(options[i].heading - node_heading) < INTERSECTION_WINDOW
       THEN tiebroken + settings.forward_penalty_on_intersections
       ELSE tiebroken

\* a jump test that skips nothing
NeverLongJump(node_loc, neighbor_loc, settings) == FALSE

\* whether no_long_jumps skips the neighbor
IsLongJump(node_loc, neighbor_loc, settings) ==
    /\ settings.no_long_jumps
    /\ ApproxDistanceSqr(node_loc, neighbor_loc) > JUMP_LIMIT * JUMP_LIMIT

\* a NodeData that points back one entry too far
NodeDataOffByOne(key, came_from, g_score) ==
    [ident |-> key, came_from |-> came_from + 1, g_score |-> g_score]

\* the map entry of a node: its key and its NodeData
NodeData(key, came_from, g_score) ==
    [ident |-> key, came_from |-> came_from, g_score |-> g_score]

\* a relaxation that replaces the entry and pushes whether or not the new
\* g_score is an improvement
RelaxNeighborAlways(s, index, tentative_g_score, neighbor_node, goal, settings) ==
    LET neighbor_index == EntryIndex(s.nodes, neighbor_node)
        occupied == neighbor_index < Len(s.nodes)
        key == IF occupied THEN s.nodes[neighbor_index + 1].ident ELSE neighbor_node
        neighbor_heuristic == Heuristic(key, goal, settings.heuristic_factor)
        data == NodeData(key, index, tentative_g_score)
        better == neighbor_heuristic < s.heuristic_of_best_node
    IN [nodes |-> IF occupied THEN [s.nodes EXCEPT ![neighbor_index + 1] = data]
                  ELSE Append(s.nodes, data),
        open_set |-> s.open_set \cup
            {[index |-> neighbor_index, g_score |-> tentative_g_score,
              f_score |-> tentative_g_score + neighbor_heuristic]},
        best_node_index |-> IF better THEN neighbor_index ELSE s.best_node_index,
        heuristic_of_best_node |->
            IF better THEN neighbor_heuristic ELSE s.heuristic_of_best_node]

\* the body of the relaxation loop for one neighbor reached with
\* tentative_g_score from the node at index: the search state it leaves
RelaxNeighbor(s, index, tentative_g_score, neighbor_node, goal, settings) ==
    LET neighbor_index == EntryIndex(s.nodes, neighbor_node)
        occupied == neighbor_index < Len(s.nodes)
        key == IF occupied THEN s.nodes[neighbor_index + 1].ident ELSE neighbor_node
        neighbor_heuristic == Heuristic(key, goal, settings.heuristic_factor)
        data == NodeData(key, index, tentative_g_score)
        better == neighbor_heuristic < s.heuristic_of_best_node
    IN IF occupied /\ ~(tentative_g_score < s.nodes[neighbor_index + 1].g_score)
       THEN s
       ELSE [nodes |-> IF occupied THEN [s.nodes EXCEPT ![neighbor_index + 1] = data]
                       ELSE Append(s.nodes, data),
             open_set |-> s.open_set \cup
                 {[index |-> neighbor_index, g_score |-> tentative_g_score,
                   f_score |-> tentative_g_score + neighbor_heuristic]},
             best_node_index |-> IF better THEN neighbor_index ELSE s.best_node_index,
             heuristic_of_best_node |->
                 IF better THEN neighbor_heuristic ELSE s.heuristic_of_best_node]

RECURSIVE RelaxNeighbors(_, _, _, _, _, _, _, _)
\* the relaxation loop over the options of the node at index, from option i on
RelaxNeighbors(s, index, g_score, node, options, i, goal, settings) ==
    IF i > Len(options) THEN s
    ELSE The({RelaxNeighbors(next, index, g_score, node, options, i + 1, goal, settings) :
              next \in {IF IsLongJump(node.pano.loc, options[i].pano.loc, settings) THEN s
                        ELSE RelaxNeighbor(s, index,
                                 g_score + NeighborCost(options, i, node.heading, settings),
                                 [pano |-> options[i].pano, heading |-> options[i].heading],
                                 goal, settings)}})

\* a heap that hands out its greatest f_score first
PopGreatest(open_set) ==
    {e \in open_set : \A o \in open_set : e.f_score >= o.f_score}

\* a heap that always reports itself empty
AlwaysEmpty(open_set) == TRUE

\* whether BinaryHeap::pop returns None
IsHeapEmpty(open_set) == open_set = {}

\* the entries BinaryHeap::pop may return: those of least f_score
PopCandidates(open_set) ==
    {e \in open_set : \A o \in open_set : e.f_score <= o.f_score}

\* ProgressUpdate::default
DefaultProgress ==
    [percent_done |-> 0, estimated_seconds_remaining |-> -1, best_path_cost |-> 0,
     nodes_considered |-> 0, best_path |-> <<>>, current_path |-> <<>>]

\* the ProgressUpdate written when the search ends, with or without a route
FinalProgress(nodes_considered, best_path_cost, route) ==
    [percent_done |-> PERCENT_ONE, estimated_seconds_remaining |-> 0,
     best_path_cost |-> best_path_cost, nodes_considered |-> nodes_considered,
     best_path |-> PathPoints(route), current_path |-> <<>>]

\* percent of the periodic update
PercentDone(heuristic_of_best_node, overall_heuristic) ==
    PERCENT_ONE - (heuristic_of_best_node * PERCENT_ONE) \div overall_heuristic

\* the ProgressUpdate of the periodic update; elapsed time is not modelled,
\* 1 stands for the estimate of a running search
RunningProgress(a, index) ==
    [percent_done |-> PercentDone(a.heuristic_of_best_node, a.overall_heuristic),
     estimated_seconds_remaining |-> 1,
     best_path_cost |-> a.nodes[a.best_node_index + 1].g_score,
     nodes_considered |-> a.nodes_considered + 1,
     best_path |-> PathPoints(ReconstructPath(a.nodes, a.best_node_index)),
     current_path |-> PathPoints(ReconstructPath(a.nodes, index))]

(***************************************************************************)
(* The waypoint orchestrator (src/src/web/path.rs).  A GetPathQuery is     *)
(* [start, start_pano, end, heading, stops, heuristic_factor,              *)
(* no_long_jumps] with start_pano = 0 for None; a FullProgressUpdate is    *)
(* the record MergedUpdate builds (id and elapsed_seconds are left out).   *)
(***************************************************************************)
\* path.rs:199  most stops a query may carry
MAX_STOPS == 200
\* path.rs:228  longest total distance of a query, in metres
MAX_TOTAL_DISTANCE == 1000000
\* path.rs:389  the radii snap_end_point_to_pano tries
SnapRadii == <<100, 500, 1000, 2000>>

\* f64::clamp
Clamp(v, lo, hi) == IF v < lo THEN lo ELSE IF v > hi THEN hi ELSE v

\* a stops check that lets every query through
NeverTooManyStops(stops) == FALSE

\* the stops check of handle_get_path_query
TooManyStops(stops) == Len(stops) > MAX_STOPS

RECURSIVE SnapScan(_, _, _)
\* the loop of snap_end_point_to_pano from radius k on
SnapScan(panos_at_tile, loc, k) ==
    IF k > Len(SnapRadii) THEN <<>>
    ELSE The({IF nearest_pano # <<>> THEN nearest_pano
              ELSE The({SnapScan(panos_at_tile, loc, next) : next \in {k + 1}}) :
              nearest_pano \in {GetNearestPano(panos_at_tile, loc, SnapRadii[k])}})

\* snap_end_point_to_pano: <<>> or <<pano>>
SnapEndPointToPano(panos_at_tile, loc) == SnapScan(panos_at_tile, loc, 1)

\* the loop that validates the stops: whether every stop has a pano, and the
\* stops moved onto their panos (the loop returns at the first stop that has
\* none)
SnapStops(panos_at_tile, next_stops) ==
    LET snap_to == [i \in 1..Len(next_stops) |->
                       SnapEndPointToPano(panos_at_tile, next_stops[i])]
    IN IF \E i \in 1..Len(next_stops) : snap_to[i] = <<>>
       THEN [ok |-> FALSE, next_stops |-> next_stops]
       ELSE [ok |-> TRUE,
             next_stops |-> [i \in 1..Len(next_stops) |-> snap_to[i][1].loc]]

RECURSIVE DistanceOver(_, _, _, _)
\* the sum of the distances of the legs lo..hi of start -> next_stops, leg i
\* ending at stop i; the sum is split in halves
DistanceOver(start, next_stops, lo, hi) ==
    IF lo > hi THEN 0
    ELSE IF lo = hi
    THEN Distance(IF lo = 1 THEN start ELSE next_stops[lo - 1], next_stops[lo])
    ELSE LET mid == (lo + hi) \div 2
         IN DistanceOver(start, next_stops, lo, mid)
            + DistanceOver(start, next_stops, mid + 1, hi)

\* total_distance of handle_get_path_query
TotalDistance(start, next_stops) == DistanceOver(start, next_stops, 1, Len(next_stops))

\* cur of iteration i of the loop that spawns the tasks
SegmentStart(start, next_stops, i) == IF i = 1 THEN start ELSE next_stops[i - 1]

\* assumed_heading of iteration i of the loop that spawns the tasks
AssumedHeading(start, heading, next_stops, i) ==
    IF i = 1 THEN heading
    ELSE CalculateHeading(SegmentStart(start, next_stops, i - 1),
                          SegmentStart(start, next_stops, i))

RECURSIVE PrefixScan(_, _, _)
\* the loop of find_path_prefix_and_append from position i on: prefix_len
PrefixScan(old_path, new_path, i) ==
    IF i > Min(Len(old_path), Len(new_path)) THEN i - 1
    ELSE IF old_path[i] # new_path[i] THEN i - 1
    ELSE PrefixScan(old_path, new_path, i + 1)

\* a diff that keeps as much of the old path as the new path is long
KeepWholeOverlap(old_path, new_path) ==
    LET prefix_len == Min(Len(old_path), Len(new_path))
    IN <<prefix_len, SubSeq(new_path, prefix_len + 1, Len(new_path))>>

\* find_path_prefix_and_append: <<prefix_len, to_append>>
FindPathPrefixAndAppend(old_path, new_path) ==
    LET prefix_len == PrefixScan(old_path, new_path, 1)
    IN <<prefix_len, SubSeq(new_path, prefix_len + 1, Len(new_path))>>

\* the accumulators of the merge loop before the first slot
MergeStart ==
    [reached_unfinished_path |-> FALSE, lowest_percent_done |-> PERCENT_ONE,
     highest_estimated_seconds_remaining |-> 0, best_path_cost |-> 0,
     nodes_considered |-> 0, combined_best_path |-> <<>>,
     combined_current_path |-> <<>>]

\* a merge step that lets every slot contribute its cost and its paths
MergeEverySlot(m, progress) ==
    [reached_unfinished_path |-> FALSE,
     lowest_percent_done |-> Min(m.lowest_percent_done, progress.percent_done),
     highest_estimated_seconds_remaining |->
         Max(m.highest_estimated_seconds_remaining, progress.estimated_seconds_remaining),
     best_path_cost |-> m.best_path_cost + progress.best_path_cost,
     nodes_considered |-> m.nodes_considered + progress.nodes_considered,
     combined_best_path |-> m.combined_best_path \o progress.best_path,
     combined_current_path |-> m.combined_current_path \o progress.current_path]

\* the body of the merge loop for one slot
MergeSlot(m, progress) ==
    [reached_unfinished_path |->
         m.reached_unfinished_path \/ progress.percent_done < PERCENT_ONE,
     lowest_percent_done |-> Min(m.lowest_percent_done, progress.percent_done),
     highest_estimated_seconds_remaining |->
         Max(m.highest_estimated_seconds_remaining, progress.estimated_seconds_remaining),
     best_path_cost |-> IF m.reached_unfinished_path THEN m.best_path_cost
                        ELSE m.best_path_cost + progress.best_path_cost,
     nodes_considered |-> m.nodes_considered + progress.nodes_considered,
     combined_best_path |-> IF m.reached_unfinished_path THEN m.combined_best_path
                            ELSE m.combined_best_path \o progress.best_path,
     combined_current_path |-> IF m.reached_unfinished_path THEN m.combined_current_path
                               ELSE m.combined_current_path \o progress.current_path]

RECURSIVE MergeSlots(_, _, _)
\* the merge loop over the slots from slot i on
MergeSlots(m, slots, i) ==
    IF i > Len(slots) THEN m
    ELSE The({MergeSlots(next, slots, i + 1) : next \in {MergeSlot(m, slots[i])}})

\* the FullProgressUpdate of one round of the merge loop
MergedUpdate(m, last_combined_best_path, last_combined_current_path) ==
    LET best == FindPathPrefixAndAppend(last_combined_best_path, m.combined_best_path)
        current == FindPathPrefixAndAppend(last_combined_current_path,
                                           m.combined_current_path)
    IN [percent_done |-> m.lowest_percent_done,
        estimated_seconds_remaining |-> m.highest_estimated_seconds_remaining,
        best_path_cost |-> m.best_path_cost,
        nodes_considered |-> m.nodes_considered,
        best_path_keep_prefix_length |-> best[1], best_path_append |-> best[2],
        current_path_keep_prefix_length |-> current[1],
        current_path_append |-> current[2]]

\* the handler of a socket that has received no message
IdleHandler ==
    [pc |-> "idle", msg |-> <<>>, is_pathing |-> FALSE,
     last_combined_best_path |-> <<>>, last_combined_current_path |-> <<>>]

\* the handler of a socket whose message has just been received:
\* handle_socket sets is_pathing and spawns handle_socket_message
ReceivedHandler(msg) ==
    [pc |-> "received", msg |-> msg, is_pathing |-> TRUE,
     last_combined_best_path |-> <<>>, last_combined_current_path |-> <<>>]

\* the receiving end of the socket: the error messages and the last progress
\* message it got, and the two paths it keeps by applying the messages
NewClient ==
    [connected |-> TRUE, errors |-> <<>>, last_message |-> <<>>,
     best_path |-> <<>>, current_path |-> <<>>, dropped |-> <<0, 0>>]

\* a path after a message: its first keep_prefix_length points, then append
ApplyDiff(path, keep_prefix_length, append) ==
    SubSeq(path, 1, keep_prefix_length) \o append

\* the receiving end after the progress message m; dropped records how many
\* points of the best path and of the current path m made it drop
ClientProgress(c, m) ==
    [c EXCEPT !.last_message = <<m>>,
              !.best_path = ApplyDiff(c.best_path, m.best_path_keep_prefix_length,
                                      m.best_path_append),
              !.current_path = ApplyDiff(c.current_path,
                                         m.current_path_keep_prefix_length,
                                         m.current_path_append),
              !.dropped = <<Len(c.best_path)
                                - Min(m.best_path_keep_prefix_length, Len(c.best_path)),
                            Len(c.current_path)
                                - Min(m.current_path_keep_prefix_length,
                                      Len(c.current_path))>>]

\* the receiving end after an error message
ClientError(c, message) == [c EXCEPT !.errors = Append(c.errors, message)]

\* is_pathing after the sender task forwards the progress message m
IsPathingAfter(is_pathing, m) ==
    is_pathing /\ ~(m.percent_done = PERCENT_ONE \/ m.percent_done < 0)

(***************************************************************************)
(* State.                                                                  *)
(***************************************************************************)
VARIABLES
    panos_at_tile,     \* the panos of the tile, sorted by latitude
    metadata,          \* pano id -> the links its metadata publishes
    option_cache,      \* GET_OPTIONS_CACHE
    settings,          \* the PathSettings of the request
    astar,             \* task -> the locals of its astar call
    progress_updates,  \* task -> the ProgressUpdate slot it shares
    handler,           \* the task handling the socket's message
    client,            \* the receiving end of the socket
    last_options,      \* what the last direct call of the options engine returned
    pano_ids_db,       \* committed table: upstream id -> PanoId
    settings_db,       \* committed table: setting name -> bytes
    write_txn,         \* the open write transaction, if any
    callers,           \* caller -> where it is in interning its ids
    first_returned,    \* spelling -> the PanoId first returned for it
    listentityphotos_db,   \* committed table: SizedTile -> encoded row
    PANOS_AT_TILE_CACHE,   \* the in-memory cache: SizedTile -> <<>> or <<list>>
    upstream,          \* the panos upstream has now, in the order it lists them
    tile_tasks,        \* task -> where it is in a query or a reset of the tile store
    getmetadata_fetch, \* the call of fetch_getmetadata_responses, if any
    math_call,         \* the last direct call of a function of the geometry, if any
    sockets,           \* socket -> its receive loop, is_pathing flag and channel
    socket_tasks,      \* the tasks spawned for the messages of the sockets
    pathfinding_tasks  \* AppState: rate-limit key -> the task registered for it

vars == <<panos_at_tile, metadata, option_cache, settings, astar, progress_updates,
          handler, client, last_options,
          pano_ids_db, settings_db, write_txn, callers, first_returned,
          listentityphotos_db, PANOS_AT_TILE_CACHE, upstream, tile_tasks,
          getmetadata_fetch, math_call, sockets, socket_tasks, pathfinding_tasks>>

searchVars == <<panos_at_tile, metadata, option_cache, settings, astar,
                progress_updates, handler, client, last_options>>

internVars == <<pano_ids_db, settings_db, write_txn, callers, first_returned>>

tileVars == <<listentityphotos_db, PANOS_AT_TILE_CACHE, upstream, tile_tasks>>

fetchVars == <<getmetadata_fetch>>

mathVars == <<math_call>>

socketVars == <<sockets, socket_tasks, pathfinding_tasks>>

restVars == <<mathVars, socketVars>>

storeVars == <<internVars, tileVars, fetchVars, restVars>>

worldVars == <<panos_at_tile, metadata, storeVars>>

EmptyTable == [k \in {} |-> <<>>]

\* nobody interns an id
IdleIntern ==
    /\ pano_ids_db = EmptyTable
    /\ settings_db = EmptyTable
    /\ write_txn = <<>>
    /\ callers = <<>>
    /\ first_returned = EmptyTable

\* an empty tile store that nobody queries
IdleTiles ==
    /\ listentityphotos_db = EmptyTable
    /\ PANOS_AT_TILE_CACHE = EmptyTable
    /\ upstream = <<>>
    /\ tile_tasks = <<>>

\* nobody fetches metadata
IdleFetch == getmetadata_fetch = <<>>

\* no function of the geometry has been called directly
IdleMath == math_call = <<>>

\* no socket is open
IdleSockets == sockets = <<>> /\ socket_tasks = <<>> /\ pathfinding_tasks = <<>>

IdleRest == IdleMath /\ IdleSockets

IdleStore == IdleIntern /\ IdleTiles /\ IdleFetch /\ IdleRest

outerVars == <<handler, client, last_options>>

\* the arguments and locals of an astar call that has not run yet; turned_at
\* records the index of the node whose expansion used the one turnaround,
\* expanded the last expansion: the entry popped, the allow_turnaround passed
\* to get_options and what get_options returned
NewAstar(start, start_pano_id, heading, goal) ==
    [pc |-> "spawned", start |-> start, start_pano_id |-> start_pano_id,
     heading |-> heading, goal |-> goal,
     open_set |-> {}, nodes |-> <<>>, overall_heuristic |-> 0,
     best_node_index |-> 0, heuristic_of_best_node |-> COST_MAX,
     nodes_considered |-> 0, allow_turnaround |-> TRUE, turned_at |-> SENTINEL,
     expanded |-> <<>>, route |-> <<>>, error |-> ""]

\* astar up to the loop: resolve the start pano, seed the heap and the map
AstarStart(t) ==
    LET a == astar[t]
        found == IF a.start_pano_id # 0
                 THEN <<[id |-> a.start_pano_id, loc |-> a.start]>>
                 ELSE GetNearestPano(panos_at_tile, a.start, START_SNAP_RADIUS)
        start_node == [pano |-> found[1], heading |-> a.heading]
    IN /\ a.pc = "spawned"
       /\ astar' = [astar EXCEPT ![t] =
              IF found = <<>>
              THEN [a EXCEPT !.pc = "failed",
                             !.error = "start position isn't near a pano"]
              ELSE [a EXCEPT !.pc = "loop",
                             !.open_set = {[index |-> 0, g_score |-> 0, f_score |-> 0]},
                             !.nodes = <<NodeData(start_node, SENTINEL, 0)>>,
                             !.overall_heuristic =
                                 Heuristic(start_node, a.goal, settings.heuristic_factor)]]
       /\ UNCHANGED <<worldVars, option_cache, settings, progress_updates, outerVars>>

\* the heap is empty: write the final update and fail with "No path found"
AstarNoPath(t) ==
    LET a == astar[t]
    IN /\ a.pc = "loop"
       /\ IsHeapEmpty(a.open_set)
       /\ astar' = [astar EXCEPT ![t] = [a EXCEPT !.pc = "no_path",
                                                  !.error = "No path found"]]
       /\ progress_updates' = [progress_updates EXCEPT ![t] =
              FinalProgress(a.nodes_considered, 0, <<>>)]
       /\ UNCHANGED <<worldVars, option_cache, settings, outerVars>>

\* an iteration that pops a node passing the goal test
AstarFoundGoal(t) ==
    LET a == astar[t]
    IN /\ a.pc = "loop"
       /\ \E popped \in PopCandidates(a.open_set) :
            LET route == ReconstructPath(a.nodes, popped.index)
            IN /\ IsGoalReached(a.nodes[popped.index + 1].ident, a.goal)
               /\ astar' = [astar EXCEPT ![t] =
                      [a EXCEPT !.pc = "found",
                                !.open_set = a.open_set \ {popped},
                                !.nodes_considered = a.nodes_considered + 1,
                                !.route = route]]
               /\ progress_updates' = [progress_updates EXCEPT ![t] =
                      FinalProgress(a.nodes_considered + 1, popped.g_score, route)]
       /\ UNCHANGED <<worldVars, option_cache, settings, outerVars>>

\* an iteration that pops an entry made stale by a cheaper one
AstarSkipStale(t) ==
    LET a == astar[t]
    IN /\ a.pc = "loop"
       /\ \E popped \in PopCandidates(a.open_set) :
            /\ ~IsGoalReached(a.nodes[popped.index + 1].ident, a.goal)
            /\ popped.g_score > a.nodes[popped.index + 1].g_score
            /\ astar' = [astar EXCEPT ![t] =
                   [a EXCEPT !.open_set = a.open_set \ {popped},
                             !.nodes_considered = a.nodes_considered + 1]]
       /\ UNCHANGED <<worldVars, option_cache, settings, progress_updates, outerVars>>

\* whether the iteration may publish: the node count gate; the 100 ms gate
\* is the caller's choice
MayPublish(nodes_considered) ==
    nodes_considered % PROGRESS_EVERY = 0 \/ nodes_considered < PROGRESS_EVERY

\* an iteration that expands the popped node: the periodic update when due,
\* get_options, the turnaround flag and the relaxation loop
AstarExpand(t) ==
    LET a == astar[t]
    IN /\ a.pc = "loop"
       /\ \E popped \in PopCandidates(a.open_set) :
            LET node == a.nodes[popped.index + 1].ident
            IN /\ ~IsGoalReached(node, a.goal)
               /\ ~(popped.g_score > a.nodes[popped.index + 1].g_score)
               /\ \E neighbors \in {GetOptions(node.pano, node.heading, a.allow_turnaround,
                                               settings.use_option_cache, option_cache,
                                               panos_at_tile, metadata)} :
                  \E s \in {RelaxNeighbors(
                                [nodes |-> a.nodes, open_set |-> a.open_set \ {popped},
                                 best_node_index |-> a.best_node_index,
                                 heuristic_of_best_node |-> a.heuristic_of_best_node],
                                popped.index, popped.g_score, node, neighbors.options, 1,
                                a.goal, settings)} :
                    /\ option_cache' = neighbors.cache
                    /\ astar' = [astar EXCEPT ![t] =
                           [a EXCEPT !.open_set = s.open_set,
                                     !.nodes = s.nodes,
                                     !.best_node_index = s.best_node_index,
                                     !.heuristic_of_best_node = s.heuristic_of_best_node,
                                     !.nodes_considered = a.nodes_considered + 1,
                                     !.allow_turnaround =
                                         a.allow_turnaround /\ ~neighbors.turnaround,
                                     !.turned_at = IF neighbors.turnaround THEN popped.index
                                                   ELSE a.turned_at,
                                     !.expanded =
                                         <<[index |-> popped.index,
                                            g_score |-> popped.g_score,
                                            allow_turnaround |-> a.allow_turnaround,
                                            turnaround |-> neighbors.turnaround,
                                            options |-> neighbors.options]>>]]
               /\ \E elapsed \in BOOLEAN :
                    progress_updates' =
                        IF MayPublish(a.nodes_considered + 1) /\ elapsed
                        THEN [progress_updates EXCEPT ![t] =
                                  RunningProgress(a, popped.index)]
                        ELSE progress_updates
       /\ UNCHANGED <<worldVars, settings, outerVars>>

\* an iteration whose get_options call fails upstream: the error leaves astar
AstarFetchError(t) ==
    LET a == astar[t]
    IN /\ a.pc = "loop"
       /\ \E popped \in PopCandidates(a.open_set), elapsed \in BOOLEAN :
            /\ ~IsGoalReached(a.nodes[popped.index + 1].ident, a.goal)
            /\ ~(popped.g_score > a.nodes[popped.index + 1].g_score)
            /\ progress_updates' =
                   IF MayPublish(a.nodes_considered + 1) /\ elapsed
                   THEN [progress_updates EXCEPT ![t] = RunningProgress(a, popped.index)]
                   ELSE progress_updates
            /\ astar' = [astar EXCEPT ![t] =
                   [a EXCEPT !.pc = "failed",
                             !.open_set = a.open_set \ {popped},
                             !.nodes_considered = a.nodes_considered + 1,
                             !.error = "upstream"]]
       /\ UNCHANGED <<worldVars, option_cache, settings, outerVars>>

\* one step of the astar call of task t
AstarStep(t) ==
    \/ AstarStart(t)
    \/ AstarNoPath(t)
    \/ AstarFoundGoal(t)
    \/ AstarSkipStale(t)
    \/ AstarExpand(t)
    \/ AstarFetchError(t)

\* the tasks after the JoinSet aborts them: a task that has returned stays as
\* it is
AbortAll(tasks) ==
    [t \in DOMAIN tasks |->
        IF tasks[t].pc \in {"spawned", "loop"} THEN [tasks[t] EXCEPT !.pc = "aborted"]
        ELSE tasks[t]]

\* send_error, then the return of the handler
Reject(message) ==
    /\ handler' = [handler EXCEPT !.pc = "rejected", !.is_pathing = FALSE]
    /\ client' = ClientError(client, message)
    /\ UNCHANGED <<settings, astar, progress_updates>>

\* handle_get_path_query up to its merge loop: the checks of the query, the
\* snapping of the stops and one spawned astar task per segment
HandleGetPathQuery ==
    LET msg == handler.msg
        heading == Rem(msg.heading + 360, 360)
        next_stops == Append(msg.stops, msg.end)
    IN /\ handler.pc = "received"
       /\ IF TooManyStops(msg.stops)
          THEN Reject("Too many stops (limit of 200)")
          ELSE \E snapped \in {SnapStops(panos_at_tile, next_stops)} :
               IF ~snapped.ok
               THEN Reject("No nearby pano")
               ELSE IF TotalDistance(msg.start, snapped.next_stops) > MAX_TOTAL_DISTANCE
               THEN Reject("Your path is more than 1000km long")
               ELSE /\ settings' =
                           [heuristic_factor |-> Clamp(msg.heuristic_factor,
                                                       MIN_HEURISTIC_FACTOR,
                                                       MAX_HEURISTIC_FACTOR),
                            no_long_jumps |-> msg.no_long_jumps,
                            use_option_cache |-> TRUE,
                            forward_penalty_on_intersections |-> 0]
                    /\ astar' =
                           [i \in 1..Len(snapped.next_stops) |->
                               NewAstar(SegmentStart(msg.start, snapped.next_stops, i),
                                        IF i = 1 THEN msg.start_pano ELSE 0,
                                        AssumedHeading(msg.start, heading,
                                                       snapped.next_stops, i),
                                        snapped.next_stops[i])]
                    /\ progress_updates' =
                           [i \in 1..Len(snapped.next_stops) |-> DefaultProgress]
                    /\ handler' = [handler EXCEPT !.pc = "merging"]
                    /\ UNCHANGED client
       /\ UNCHANGED <<worldVars, option_cache, last_options>>

\* one round of the merge loop of handle_get_path_query: merge the slots,
\* send the update, stop when every slot is done or the send fails
MergeTick ==
    /\ handler.pc = "merging"
    /\ \E m \in {MergeSlots(MergeStart, progress_updates, 1)} :
       \E update \in {MergedUpdate(m, handler.last_combined_best_path,
                                   handler.last_combined_current_path)} :
         IF client.connected
         THEN /\ client' = ClientProgress(client, update)
              /\ handler' =
                     [handler EXCEPT
                         !.last_combined_best_path = m.combined_best_path,
                         !.last_combined_current_path = m.combined_current_path,
                         !.is_pathing = IsPathingAfter(handler.is_pathing, update),
                         !.pc = IF m.lowest_percent_done = PERCENT_ONE THEN "done"
                                ELSE "merging"]
              /\ UNCHANGED astar
         ELSE /\ handler' =
                     [handler EXCEPT
                         !.last_combined_best_path = m.combined_best_path,
                         !.last_combined_current_path = m.combined_current_path,
                         !.pc = "aborted"]
              /\ astar' = AbortAll(astar)
              /\ UNCHANGED client
    /\ UNCHANGED <<worldVars, option_cache, settings, progress_updates, last_options>>

\* the end of handle_socket: the socket closes, the sender task is aborted
\* and, while is_pathing is set, so is the handler with the tasks of its
\* JoinSet
SocketClosed ==
    /\ client.connected
    /\ client' = [client EXCEPT !.connected = FALSE]
    /\ IF handler.is_pathing /\ handler.pc \in {"received", "merging"}
       THEN /\ handler' = [handler EXCEPT !.pc = "aborted"]
            /\ astar' = AbortAll(astar)
       ELSE UNCHANGED <<handler, astar>>
    /\ UNCHANGED <<worldVars, option_cache, settings, progress_updates, last_options>>

\* one step of the task of segment t, when the request has one
TaskStep(t) == t \in DOMAIN astar /\ AstarStep(t)

(***************************************************************************)
(* The worlds the searches run on: panos on a two-row grid, every subset   *)
(* of them present, and the links their metadata publishes.                *)
(***************************************************************************)
PanoLoc(i) == <<Spacing * ((i - 1) % 2), Spacing * ((i - 1) \div 2)>>

PanoAt(i) == [id |-> i, search_loc |-> PanoLoc(i), actual_loc |-> PanoLoc(i)]

RECURSIVE TileOf(_, _)
\* the panos of present in latitude order, as the tile store keeps them
TileOf(present, row) ==
    LET ids == {i \in present : (i - 1) % 2 = row}
        RECURSIVE Asc(_)
        Asc(rest) == IF rest = {} THEN <<>>
                     ELSE LET m == CHOOSE x \in rest : \A y \in rest : x <= y
                          IN <<PanoAt(m)>> \o Asc(rest \ {m})
    IN IF row > 1 THEN <<>> ELSE Asc(ids) \o TileOf(present, row + 1)

\* a published link <<from, to, heading>>
LinkTo(link) ==
    [pano |-> [id |-> link[2], loc |-> PanoLoc(link[2])], heading |-> link[3]]

\* the metadata in which only the links of the set are published
MetadataOf(links) ==
    [i \in 1..NPanos |->
        LET from_i == {l \in links : l[1] = i}
            RECURSIVE Asc(_)
            Asc(rest) == IF rest = {} THEN <<>>
                         ELSE LET m == CHOOSE x \in rest :
                                           \A y \in rest : x[2] < y[2] \/
                                                           (x[2] = y[2] /\ x[3] <= y[3])
                              IN <<LinkTo(m)>> \o Asc(rest \ {m})
        IN Asc(from_i)]

RECURSIVE SetsUpTo(_, _)
\* the subsets of S of at most n elements
SetsUpTo(S, n) ==
    IF n = 0 THEN {{}}
    ELSE LET smaller == SetsUpTo(S, n - 1)
         IN smaller \cup {s \cup {x} : s \in smaller, x \in S}

\* the links a pano may publish: to any other pano, under the heading towards
\* it or under a heading of 90 (the heading of a link is upstream data)
LinkChoices ==
    UNION {{<<l[1], l[2], CalculateHeading(PanoLoc(l[1]), PanoLoc(l[2]))>>,
            <<l[1], l[2], 90>>} :
           l \in {x \in (1..NPanos) \X (1..NPanos) : x[1] # x[2]}}

\* the worlds: any subset of the panos without links, or all of them with at
\* most MaxLinks links
Worlds ==
    {[present |-> p \cup {1}, links |-> {}] : p \in SUBSET (2..NPanos)}
    \cup {[present |-> 1..NPanos, links |-> ls] : ls \in SetsUpTo(LinkChoices, MaxLinks)}

SettingsChoices ==
    {[heuristic_factor |-> MIN_HEURISTIC_FACTOR, no_long_jumps |-> FALSE,
      use_option_cache |-> FALSE, forward_penalty_on_intersections |-> 0],
     [heuristic_factor |-> MAX_HEURISTIC_FACTOR, no_long_jumps |-> TRUE,
      use_option_cache |-> TRUE, forward_penalty_on_intersections |-> 0],
     [heuristic_factor |-> RECOMMENDED_HEURISTIC_FACTOR, no_long_jumps |-> FALSE,
      use_option_cache |-> TRUE, forward_penalty_on_intersections |-> 3000]}

StartChoices ==
    {[start |-> <<0, 0>>, start_pano_id |-> 0],
     [start |-> <<0, 0>>, start_pano_id |-> 1],
     [start |-> <<0, -600>>, start_pano_id |-> 0]}

HeadingChoices == {90, 180}

GoalChoices ==
    {PanoLoc(NPanos), <<Spacing - 8, Spacing + 12>>, <<3 * Spacing, Spacing + 10>>}

EmptyCache == [k \in {} |-> <<>>]

InitAstar ==
    /\ \E w \in Worlds :
         /\ panos_at_tile = TileOf(w.present, 0)
         /\ metadata = MetadataOf(w.links)
    /\ option_cache = EmptyCache
    /\ settings \in SettingsChoices
    /\ \E sc \in StartChoices, h \in HeadingChoices, g \in GoalChoices :
         astar = [t \in {1} |-> NewAstar(sc.start, sc.start_pano_id, h, g)]
    /\ progress_updates = [t \in {1} |-> DefaultProgress]
    /\ handler = IdleHandler
    /\ client = NewClient
    /\ last_options = <<>>
    /\ IdleStore

\* the searches on the full world with the link from pano 4 to pano 5
InitAstarFair ==
    /\ panos_at_tile = TileOf(1..NPanos, 0)
    /\ metadata = MetadataOf({<<4, 5, 90>>})
    /\ option_cache = EmptyCache
    /\ settings \in SettingsChoices
    /\ \E sc \in StartChoices, h \in HeadingChoices, g \in GoalChoices :
         astar = [t \in {1} |-> NewAstar(sc.start, sc.start_pano_id, h, g)]
    /\ progress_updates = [t \in {1} |-> DefaultProgress]
    /\ handler = IdleHandler
    /\ client = NewClient
    /\ last_options = <<>>
    /\ IdleStore

NextAstar == \E t \in DOMAIN astar : AstarStep(t)

SpecAstar == InitAstar /\ [][NextAstar]_vars

\* the astar call is one task on the runtime: it keeps being polled until it
\* returns
SpecAstarFair ==
    InitAstarFair /\ [][NextAstar]_vars /\ \A t \in {1} : WF_vars(AstarStep(t))

(***************************************************************************)
(* Searches on the ladder and on the ladder with a portal: a pano far to   *)
(* the east that the last pano of the ladder links to.  The searches start *)
(* on the first pano, heading east, south-west or just west of north, for  *)
(* a goal on the ladder, behind the start, at the portal or out of reach.   *)
(***************************************************************************)
\* metres from the last pano of the ladder to the portal
PortalJump == 600

PortalLoc == <<0, Spacing * ((NPanos - 1) \div 2) + PortalJump>>

PortalPano == [id |-> NPanos + 1, search_loc |-> PortalLoc, actual_loc |-> PortalLoc]

\* the pano of the ladder that links to the portal: the last one of row 0
PortalGate == IF NPanos % 2 = 1 THEN NPanos ELSE NPanos - 1

RouteWorlds ==
    {[panos_at_tile |-> TileOf(1..NPanos, 0), metadata |-> MetadataOf({})],
     [panos_at_tile |-> <<PortalPano>> \o TileOf(1..NPanos, 0),
      metadata |-> [i \in 1..(NPanos + 1) |->
                       IF i = PortalGate
                       THEN <<[pano |-> [id |-> PortalPano.id, loc |-> PortalLoc],
                               heading |-> 90]>>
                       ELSE <<>>]]}

RouteHeadings == {90, 225, 350}

RouteGoals == {PanoLoc(5), <<0, -Spacing>>, PortalLoc, <<3 * Spacing, Spacing + 10>>}

InitRoutes ==
    /\ \E w \in RouteWorlds :
         /\ panos_at_tile = w.panos_at_tile
         /\ metadata = w.metadata
    /\ option_cache = EmptyCache
    /\ settings \in SettingsChoices
    /\ \E h \in RouteHeadings, g \in RouteGoals :
         astar = [t \in {1} |-> NewAstar(PanoLoc(1), 1, h, g)]
    /\ progress_updates = [t \in {1} |-> DefaultProgress]
    /\ handler = IdleHandler
    /\ client = NewClient
    /\ last_options = <<>>
    /\ IdleStore

SpecRoutes == InitRoutes /\ [][NextAstar]_vars

(***************************************************************************)
(* Requests on a socket: one path query, handled while its segments are    *)
(* searched and the socket may close.                                      *)
(***************************************************************************)
\* the settings before a query sets them
IdleSettings ==
    [heuristic_factor |-> RECOMMENDED_HEURISTIC_FACTOR, no_long_jumps |-> FALSE,
     use_option_cache |-> TRUE, forward_penalty_on_intersections |-> 0]

\* no task, no slot
NoTasks == <<>>

\* the panos present in the worlds of the requests: two panos out of reach
\* of each other, a line of three, a detour that first leads away from the
\* end of the line, the whole ladder
WebPresent == {{1, 5}, {1, 3, 5}, {1, 2, 4, 5}, 1..NPanos}

\* the queries: from the first pano or from a place without panos, to the
\* pano at the end of the line or the one beside the line, directly or over
\* the pano in the middle; the heading is east, given as a negative angle
WebQueries ==
    {[start |-> start, start_pano |-> 0, end |-> end, heading |-> 90 - 360,
      stops |-> stops, heuristic_factor |-> RECOMMENDED_HEURISTIC_FACTOR,
      no_long_jumps |-> FALSE] :
     start \in {<<0, 0>>, <<0, -600>>}, stops \in {<<>>, <<PanoLoc(3)>>},
     end \in {PanoLoc(5), PanoLoc(4)}}

InitWebOn(present) ==
    /\ panos_at_tile = TileOf(present, 0)
    /\ metadata = MetadataOf({})
    /\ option_cache = EmptyCache
    /\ settings = IdleSettings
    /\ astar = NoTasks
    /\ progress_updates = NoTasks
    /\ \E q \in WebQueries : handler = ReceivedHandler(q)
    /\ client = NewClient
    /\ last_options = <<>>
    /\ IdleStore

InitWeb == \E present \in WebPresent : InitWebOn(present)

InitWebFair == InitWebOn({1, 3, 5})

NextWeb ==
    \/ HandleGetPathQuery
    \/ MergeTick
    \/ SocketClosed
    \/ \E t \in DOMAIN astar : AstarStep(t)

SpecWeb == InitWeb /\ [][NextWeb]_vars

\* the handler and the tasks are tasks of the runtime, polled until they
\* return; nothing makes the socket close
SpecWebFair ==
    /\ InitWebFair
    /\ [][NextWeb]_vars
    /\ WF_vars(HandleGetPathQuery)
    /\ WF_vars(MergeTick)
    /\ \A t \in 1..2 : WF_vars(TaskStep(t))

(***************************************************************************)
(* Queries at the limits of what handle_get_path_query accepts, on a line  *)
(* of panos with one more pano far to the east.                            *)
(***************************************************************************)
\* metres east of the origin of the far pano
FarLng == 999500

FarPano ==
    [id |-> NPanos + 1, search_loc |-> <<0, FarLng>>, actual_loc |-> <<0, FarLng>>]

ValidateTile == TileOf({1, 3, 5}, 0) \o <<FarPano>>

\* a stop on a pano, one whose nearest pano is found at the widest radius
\* only, one with no pano within any radius
StopChoices == {PanoLoc(3), <<0, 1500>>, <<0, 3000>>}

StopCounts == {0, 1, MAX_STOPS - 1, MAX_STOPS, MAX_STOPS + 1}

EndChoices == {PanoLoc(5), <<0, FarLng>>, <<0, FarLng + 1500>>, <<0, 3000>>}

ValidateQueries ==
    {[start |-> start, start_pano |-> 0, end |-> end, heading |-> 90,
      stops |-> [i \in 1..n |-> stop], heuristic_factor |-> factor,
      no_long_jumps |-> FALSE] :
     start \in {<<0, 0>>, <<0, -1000>>}, end \in EndChoices, n \in StopCounts,
     stop \in StopChoices,
     factor \in {MIN_HEURISTIC_FACTOR - 5, RECOMMENDED_HEURISTIC_FACTOR,
                 MAX_HEURISTIC_FACTOR + 10}}

InitValidate ==
    /\ panos_at_tile = ValidateTile
    /\ metadata = MetadataOf({})
    /\ option_cache = EmptyCache
    /\ settings = IdleSettings
    /\ astar = NoTasks
    /\ progress_updates = NoTasks
    /\ \E q \in ValidateQueries : handler = ReceivedHandler(q)
    /\ client = NewClient
    /\ last_options = <<>>
    /\ IdleStore

NextValidate == HandleGetPathQuery \/ SocketClosed

SpecValidate == InitValidate /\ [][NextValidate]_vars

(***************************************************************************)
(* The options engine called directly, with and without the option cache,  *)
(* while reset_cache_nearby re-downloads the tile.                         *)
(***************************************************************************)
\* what upstream may hold when the tile is downloaded
UpstreamWorlds ==
    {[present |-> {1, 3}, links |-> {}],
     [present |-> {1, 3, 5}, links |-> {}],
     [present |-> 1..NPanos, links |-> {}],
     [present |-> 1..NPanos, links |-> {<<1, 4, 90>>}]}

CallPanos == {1, 3}

CallHeadings == {90}

\* the locations a caller may pass for a pano: where the pano is, or where
\* the first pano is
CallLocs(id) == {PanoLoc(id), PanoLoc(1)}

\* a call of get_options_no_turnaround
CallGetOptionsNoTurnaround ==
    \E id \in CallPanos, heading \in CallHeadings, use_option_cache \in BOOLEAN :
    \E loc \in CallLocs(id) :
    \E res \in {GetOptionsNoTurnaround([id |-> id, loc |-> loc], heading,
                                       use_option_cache, option_cache,
                                       panos_at_tile, metadata)} :
        /\ option_cache' = res.cache
        /\ last_options' = <<[pano_id |-> id, loc |-> loc, heading |-> heading,
                             use_option_cache |-> use_option_cache,
                             options |-> res.options]>>
        /\ UNCHANGED <<worldVars, settings, astar, progress_updates, handler, client>>

\* reset_cache_nearby: the tile is removed from the tile cache and
\* downloaded again, and with it the metadata of its panos
ResetCacheNearby ==
    /\ \E w \in UpstreamWorlds :
         /\ panos_at_tile' = TileOf(w.present, 0)
         /\ metadata' = MetadataOf(w.links)
    /\ UNCHANGED <<option_cache, settings, astar, progress_updates, outerVars, storeVars>>

InitOptions ==
    /\ \E w \in UpstreamWorlds :
         /\ panos_at_tile = TileOf(w.present, 0)
         /\ metadata = MetadataOf(w.links)
    /\ option_cache = EmptyCache
    /\ settings = IdleSettings
    /\ astar = NoTasks
    /\ progress_updates = NoTasks
    /\ handler = IdleHandler
    /\ client = NewClient
    /\ last_options = <<>>
    /\ IdleStore

NextOptions == CallGetOptionsNoTurnaround \/ ResetCacheNearby

SpecOptions == InitOptions /\ [][NextOptions]_vars

(***************************************************************************)
(* The options engine called on street scenes: a few panos around the      *)
(* origin, all in one tile, and the published links of the pano at the     *)
(* origin.  Each scene is <<the panos <<id, lat, lng>>, the links>>.       *)
(***************************************************************************)
ScenePano(p) == [id |-> p[1], search_loc |-> <<p[2], p[3]>>, actual_loc |-> <<p[2], p[3]>>]

RECURSIVE SceneTile(_)
\* the panos of the scene in latitude order, as the tile store keeps them
SceneTile(panos) ==
    IF panos = {} THEN <<>>
    ELSE LET m == CHOOSE x \in panos :
                      \A y \in panos : x[2] < y[2] \/ (x[2] = y[2] /\ x[1] <= y[1])
         IN <<ScenePano(m)>> \o SceneTile(panos \ {m})

\* a published link to a pano 10 m from the origin at the heading
SceneLink(id, heading) ==
    [pano |-> [id |-> id, loc |-> PointAtDistance(<<0, 0>>, heading, 10)],
     heading |-> heading]

\* a pano 20 m east; one 30 m east; a row of three, 15 m apart; the row with
\* a pano on the diagonal; the row with a pano to the north; a pano to the
\* north-east before one 30 m east; a pano behind, to the south-west; a pano
\* to the west-north-west; links at 100 and 101 degrees from east and a
\* pano 20 m east
Scenes ==
    {<< {<<1, 0, 0>>, <<2, 0, 20>>}, <<>> >>,
     << {<<1, 0, 0>>, <<2, 0, 30>>}, <<>> >>,
     << {<<1, 0, 0>>, <<2, 0, 15>>, <<3, 0, 30>>}, <<>> >>,
     << {<<1, 0, 0>>, <<2, 0, 15>>, <<3, 0, 30>>, <<4, 30, 30>>}, <<>> >>,
     << {<<1, 0, 0>>, <<2, 0, 15>>, <<3, 0, 30>>, <<5, 15, 0>>}, <<>> >>,
     << {<<1, 0, 0>>, <<2, 10, 10>>, <<3, 0, 30>>}, <<>> >>,
     << {<<1, 0, 0>>, <<2, -12, -5>>}, <<>> >>,
     << {<<1, 0, 0>>, <<2, 3, -8>>}, <<>> >>,
     << {<<1, 0, 0>>, <<2, 0, 20>>}, <<SceneLink(6, 190), SceneLink(7, 191)>> >>}

\* the pano the calls are made for: the one at the origin, by its own id or
\* by an id the tile does not hold
SceneCallers == {1, 9}

\* east, south-south-east, and what the normalisation of the query handler
\* leaves of a heading of -560
SceneHeadings == {90, 160, -200}

\* a call of get_options_no_turnaround for the pano at the origin
CallGetOptionsAtOrigin ==
    \E id \in SceneCallers, heading \in SceneHeadings, use_option_cache \in BOOLEAN :
    \E res \in {GetOptionsNoTurnaround([id |-> id, loc |-> <<0, 0>>], heading,
                                       use_option_cache, option_cache,
                                       panos_at_tile, metadata)} :
        /\ option_cache' = res.cache
        /\ last_options' = <<[pano_id |-> id, loc |-> <<0, 0>>, heading |-> heading,
                             use_option_cache |-> use_option_cache,
                             options |-> res.options]>>
        /\ UNCHANGED <<worldVars, settings, astar, progress_updates, handler, client>>

InitScenes ==
    /\ \E scene \in Scenes :
         /\ panos_at_tile = SceneTile(scene[1])
         /\ metadata = <<scene[2]>>
    /\ option_cache = EmptyCache
    /\ settings = IdleSettings
    /\ astar = NoTasks
    /\ progress_updates = NoTasks
    /\ handler = IdleHandler
    /\ client = NewClient
    /\ last_options = <<>>
    /\ IdleStore

SpecScenes == InitScenes /\ [][CallGetOptionsAtOrigin]_vars

(***************************************************************************)
(* Pano ids (src/src/db/mod.rs, src/src/streetview/api.rs).  An upstream   *)
(* id is a string, here a sequence of one-character strings; a u32 is      *)
(* <<high 16 bits, low 16 bits>>, stored as its four little-endian bytes.  *)
(***************************************************************************)
\* the characters of the codes 32..126 (the quote, the backslash and the backtick by name)
AsciiTable ==
    << " ", "!", "QUOTE", "#", "$", "%", "&", "'", "(", ")", "*", "+", ",", "-", ".", "/",
       "0", "1", "2", "3", "4", "5", "6", "7", "8", "9", ":", ";", "<", "=", ">", "?",
       "@", "A", "B", "C", "D", "E", "F", "G", "H", "I", "J", "K", "L", "M", "N", "O",
       "P", "Q", "R", "S", "T", "U", "V", "W", "X", "Y", "Z", "[", "BACKSLASH", "]", "^", "_",
       "BACKTICK", "a", "b", "c", "d", "e", "f", "g", "h", "i", "j", "k", "l", "m", "n", "o",
       "p", "q", "r", "s", "t", "u", "v", "w", "x", "y", "z", "{", "|", "}", "~" >>

\* str::as_bytes, one character
ByteOf(c) == 31 + CHOOSE i \in 1..Len(AsciiTable) : AsciiTable[i] = c

\* String::from_utf8_lossy, one byte: a byte that is no printable character
\* is shown as the replacement character
CharOf(b) == IF b \in 32..126 THEN AsciiTable[b - 31] ELSE "U+FFFD"

\* the alphabet of BASE64_STANDARD
Base64Alphabet ==
    << "A", "B", "C", "D", "E", "F", "G", "H", "I", "J", "K", "L", "M", "N", "O", "P",
       "Q", "R", "S", "T", "U", "V", "W", "X", "Y", "Z", "a", "b", "c", "d", "e", "f",
       "g", "h", "i", "j", "k", "l", "m", "n", "o", "p", "q", "r", "s", "t", "u", "v",
       "w", "x", "y", "z", "0", "1", "2", "3", "4", "5", "6", "7", "8", "9", "+", "/" >>

IsBase64Char(c) == \E i \in 1..64 : Base64Alphabet[i] = c

SextetOf(c) == (CHOOSE i \in 1..64 : Base64Alphabet[i] = c) - 1

\* str::replace of one character by another
Replace(s, from, to) == [i \in 1..Len(s) |-> IF s[i] = from THEN to ELSE s[i]]

\* str::starts_with
StartsWith(s, prefix) ==
    Len(s) >= Len(prefix) /\ SubSeq(s, 1, Len(prefix)) = prefix

\* the bytes of one group of four base64 characters, pad of them padding
DecodeGroup(g, pad) ==
    LET n == SextetOf(g[1]) * 262144 + SextetOf(g[2]) * 4096
             + (IF pad >= 2 THEN 0 ELSE SextetOf(g[3]) * 64)
             + (IF pad >= 1 THEN 0 ELSE SextetOf(g[4]))
        bytes == <<n \div 65536, (n \div 256) % 256, n % 256>>
    IN SubSeq(bytes, 1, 3 - pad)

\* BASE64_STANDARD.decode: [ok, bytes]; padding is canonical and only ends
\* the last group, whose unused bits are zero
Base64Decode(s) ==
    LET groups == Len(s) \div 4
        pad == IF Len(s) >= 1 /\ s[Len(s)] = "="
               THEN (IF Len(s) >= 2 /\ s[Len(s) - 1] = "=" THEN 2 ELSE 1)
               ELSE 0
        wellFormed ==
            /\ Len(s) % 4 = 0
            /\ \A i \in 1..(Len(s) - pad) : IsBase64Char(s[i])
            /\ pad = 2 => SextetOf(s[Len(s) - 2]) % 16 = 0
            /\ pad = 1 => SextetOf(s[Len(s) - 1]) % 4 = 0
        byteAt(k) ==
            LET g == (k - 1) \div 3 + 1
            IN DecodeGroup(SubSeq(s, 4 * g - 3, 4 * g),
                           IF g = groups THEN pad ELSE 0)[((k - 1) % 3) + 1]
    IN IF wellFormed
       THEN [ok |-> TRUE, bytes |-> [k \in 1..(3 * groups - pad) |-> byteAt(k)]]
       ELSE [ok |-> FALSE, bytes |-> <<>>]

\* BASE64_STANDARD.encode
Base64Encode(bytes) ==
    LET groups == (Len(bytes) + 2) \div 3
        byte(k) == IF k <= Len(bytes) THEN bytes[k] ELSE 0
        charAt(i) ==
            LET g == (i - 1) \div 4
                n == byte(3 * g + 1) * 65536 + byte(3 * g + 2) * 256 + byte(3 * g + 3)
                j == (i - 1) % 4
                sextet == IF j = 0 THEN n \div 262144
                          ELSE IF j = 1 THEN (n \div 4096) % 64
                          ELSE IF j = 2 THEN (n \div 64) % 64
                          ELSE n % 64
            IN IF 3 * g + j > Len(bytes) THEN "=" ELSE Base64Alphabet[sextet + 1]
    IN [i \in 1..(4 * groups) |-> charAt(i)]

CAoS == <<"C", "A", "o", "S">>

\* a spelling that is returned as it is
NotDecoded(pano_id) == [panics |-> FALSE, str |-> pano_id]

\* decode_protobuf_pano: [panics, str]; the slice of the bytes panics when
\* the length byte runs past their end
DecodeProtobufPano(pano_id) ==
    IF ~StartsWith(pano_id, CAoS) \/ Len(pano_id) <= 22
    THEN [panics |-> FALSE, str |-> pano_id]
    ELSE LET decoded == Base64Decode(Replace(pano_id, ".", "="))
             bytes == decoded.bytes
             tags == {i \in 1..Len(bytes) : bytes[i] = 18}
             tag_pos == (CHOOSE i \in tags : \A j \in tags : i <= j) - 1
             length == bytes[tag_pos + 2]
             string_start == tag_pos + 2
         IN IF ~decoded.ok \/ tags = {} \/ tag_pos + 2 > Len(bytes)
            THEN [panics |-> FALSE, str |-> pano_id]
            ELSE IF string_start + length > Len(bytes)
            THEN [panics |-> TRUE, str |-> <<>>]
            ELSE [panics |-> FALSE,
                  str |-> [i \in 1..length |-> CharOf(bytes[string_start + i])]]

\* encode_protobuf_pano
EncodeProtobufPano(pano_id) ==
    IF StartsWith(pano_id, CAoS) THEN pano_id
    ELSE Replace(Base64Encode(<<8, 10, 18, Len(pano_id) % 256>>
                              \o [i \in 1..Len(pano_id) |-> ByteOf(pano_id[i])]),
                 "=", ".")

\* is_third_party_pano
IsThirdPartyPano(pano_id) ==
    \/ StartsWith(pano_id, <<"C", "I", "H", "M", "0", "o", "g">>)
    \/ StartsWith(pano_id, <<"C", "I", "A", "B">>)
    \/ Len(pano_id) > 22

\* u32::to_le_bytes
ToLeBytes(v) == <<v[2] % 256, v[2] \div 256, v[1] % 256, v[1] \div 256>>

\* u32::from_le_bytes
FromLeBytes(b) == <<b[3] + 256 * b[4], b[1] + 256 * b[2]>>

\* u32::checked_add(1): <<>> on overflow
CheckedAddOne(v) ==
    IF v[2] < 65535 THEN <<<<v[1], v[2] + 1>>>>
    ELSE IF v[1] < 65535 THEN <<<<v[1] + 1, 0>>>>
    ELSE <<>>

\* a check that lets every counter pass
AlwaysBelowTwoPow31(v) == TRUE

\* expected_pano_id < 2u32.pow(31)
BelowTwoPow31(v) == v[1] < 32768

\* a flag that is never set
WithoutTopBit(v) == v

\* expected_pano_id |= 1 << 31
WithTopBit(v) == <<IF v[1] < 32768 THEN v[1] + 32768 ELSE v[1], v[2]>>

\* PanoId::is_photosphere
IsPhotosphere(pano_id) == pano_id[1] \div 32768 = 1

\* the low 31 bits of a PanoId
CounterPart(pano_id) == <<pano_id[1] % 32768, pano_id[2]>>

\* a < b on u32
U32Less(a, b) == a[1] < b[1] \/ (a[1] = b[1] /\ a[2] < b[2])

\* Database::put of heed on a table held as a function
Put(table, key, value) ==
    [k \in DOMAIN table \cup {key} |-> IF k = key THEN value ELSE table[k]]

NEXT_PANO_ID == "next-pano-id"

\* a counter that is handed out but never advanced
NextPanoIdKept(txn) ==
    LET stored == IF NEXT_PANO_ID \in DOMAIN txn.settings_db
                  THEN txn.settings_db[NEXT_PANO_ID] ELSE <<>>
    IN [panics |-> FALSE, txn |-> txn,
        next_pano_id |-> IF stored = <<>> THEN <<0, 0>> ELSE FromLeBytes(stored)]

\* Db::next_pano_id: [panics, txn, next_pano_id]
NextPanoId(txn) ==
    LET stored == IF NEXT_PANO_ID \in DOMAIN txn.settings_db
                  THEN txn.settings_db[NEXT_PANO_ID] ELSE <<>>
        next_pano_id == IF stored = <<>> THEN <<0, 0>> ELSE FromLeBytes(stored)
        bumped == CheckedAddOne(next_pano_id)
    IN IF bumped = <<>>
       THEN [panics |-> TRUE, txn |-> txn, next_pano_id |-> next_pano_id]
       ELSE [panics |-> FALSE,
             txn |-> [txn EXCEPT !.settings_db =
                          Put(@, NEXT_PANO_ID, ToLeBytes(bumped[1]))],
             next_pano_id |-> next_pano_id]

\* Db::get_pano_id_with_txn: [panics, txn, pano_id]
GetPanoIdWithTxn(txn, original) ==
    LET decoded == DecodeProtobufPano(original)
        str_pano_id == decoded.str
        next == NextPanoId(txn)
        expected_pano_id ==
            IF IsThirdPartyPano(str_pano_id) THEN WithTopBit(next.next_pano_id)
            ELSE next.next_pano_id
    IN IF decoded.panics
       THEN [panics |-> TRUE, txn |-> txn, pano_id |-> <<0, 0>>]
       ELSE IF str_pano_id \in DOMAIN txn.pano_ids_db
       THEN [panics |-> FALSE, txn |-> txn, pano_id |-> txn.pano_ids_db[str_pano_id]]
       ELSE IF next.panics \/ ~BelowTwoPow31(next.next_pano_id)
       THEN [panics |-> TRUE, txn |-> txn, pano_id |-> <<0, 0>>]
       ELSE [panics |-> FALSE,
             txn |-> [next.txn EXCEPT !.pano_ids_db =
                          Put(@, str_pano_id, expected_pano_id)],
             pano_id |-> expected_pano_id]

\* Db::get_pano_count: the committed counter, 0 while it is not stored
GetPanoCount(table) ==
    IF NEXT_PANO_ID \in DOMAIN table /\ table[NEXT_PANO_ID] # <<>>
    THEN FromLeBytes(table[NEXT_PANO_ID])
    ELSE <<0, 0>>

\* no search, no request and no direct call of the options engine
IdleSearch ==
    /\ panos_at_tile = <<>>
    /\ metadata = MetadataOf({})
    /\ option_cache = EmptyCache
    /\ settings = IdleSettings
    /\ astar = NoTasks
    /\ progress_updates = NoTasks
    /\ handler = IdleHandler
    /\ client = NewClient
    /\ last_options = <<>>

(***************************************************************************)
(* Interning by concurrent callers.  Db::get_pano_id interns one id, the   *)
(* tile download interns the ids of a tile in one transaction              *)
(* (uncached_get_panos_at_sized_tile); the environment hands the write     *)
(* transaction to one caller at a time.                                    *)
(***************************************************************************)
\* a caller that has not called yet
IdleCaller == [pc |-> "idle", ids |-> <<>>, converted |-> <<>>]

\* one call of get_pano_id_with_txn inside the caller's transaction
InternNext(c) ==
    /\ callers[c].pc = "writing"
    /\ Len(callers[c].converted) < Len(callers[c].ids)
    /\ \E res \in {GetPanoIdWithTxn(write_txn[1],
                                    callers[c].ids[Len(callers[c].converted) + 1])} :
         /\ ~res.panics
         /\ write_txn' = <<[owner |-> c, pano_ids_db |-> res.txn.pano_ids_db,
                            settings_db |-> res.txn.settings_db]>>
         /\ callers' = [callers EXCEPT ![c].converted = Append(@, res.pano_id)]
    /\ UNCHANGED <<pano_ids_db, settings_db, first_returned, searchVars, tileVars, fetchVars, restVars>>

\* a call of get_pano_id_with_txn that panics: the caller's task ends and
\* its transaction is dropped without a commit
InternPanics(c) ==
    /\ callers[c].pc = "writing"
    /\ Len(callers[c].converted) < Len(callers[c].ids)
    /\ GetPanoIdWithTxn(write_txn[1],
                        callers[c].ids[Len(callers[c].converted) + 1]).panics
    /\ write_txn' = <<>>
    /\ callers' = [callers EXCEPT ![c].pc = "panicked"]
    /\ UNCHANGED <<pano_ids_db, settings_db, first_returned, searchVars, tileVars, fetchVars, restVars>>

\* the spellings a commit returns a PanoId for, with the PanoId returned
\* for each when it was first returned
RecordReturned(returned, ids, converted) ==
    [s \in DOMAIN returned \cup {ids[i] : i \in 1..Len(ids)} |->
        IF s \in DOMAIN returned THEN returned[s]
        ELSE converted[CHOOSE i \in 1..Len(ids) : ids[i] = s]]

\* RwTxn::commit: the tables of the transaction become the committed ones
\* and the caller has its PanoIds
Commit(c) ==
    /\ callers[c].pc = "writing"
    /\ Len(callers[c].converted) = Len(callers[c].ids)
    /\ pano_ids_db' = write_txn[1].pano_ids_db
    /\ settings_db' = write_txn[1].settings_db
    /\ write_txn' = <<>>
    /\ callers' = [callers EXCEPT ![c] = IdleCaller]
    /\ first_returned' = RecordReturned(first_returned, callers[c].ids,
                                        callers[c].converted)
    /\ UNCHANGED <<searchVars, tileVars, fetchVars, restVars>>

\* upstream ids: an official pano, two photospheres by prefix, one by length
Official == <<"x">> \o [i \in 1..21 |-> "A"]

ThirdParty == <<"C", "I", "H", "M", "0", "o", "g">> \o [i \in 1..16 |-> "K"]

Ciab == <<"C", "I", "A", "B", "x", "y", "z">>

LongId == <<"A", "F", "1", "Q", "i", "p">> \o [i \in 1..38 |-> "N"]

UpstreamIds == {Official, ThirdParty, Ciab, LongId}

\* the ids as upstream spells them: bare, or wrapped in the envelope
Spellings ==
    UpstreamIds \cup {EncodeProtobufPano(Official), EncodeProtobufPano(ThirdParty)}

\* spelling -> the upstream id it is a spelling of
SpellingTable ==
    [s \in Spellings |-> CHOOSE u \in UpstreamIds : s \in {u, EncodeProtobufPano(u)}]

UpstreamIdOf(s) == SpellingTable[s]

\* the ids of one call: one id for get_pano_id, the ids of a tile for the
\* tile download
InternCalls ==
    {<<s>> : s \in Spellings}
    \cup {<<Official, EncodeProtobufPano(Official)>>,
          <<EncodeProtobufPano(ThirdParty), Ciab>>,
          <<LongId, ThirdParty>>}

\* Db::get_pano_id, or the interning loop of the tile download, is called:
\* Env::write_txn returns once no other write transaction is open, and the
\* transaction starts from the committed tables
BeginIntern(c) ==
    /\ callers[c].pc = "idle"
    /\ write_txn = <<>>
    /\ \E ids \in InternCalls :
         callers' = [callers EXCEPT ![c] = [pc |-> "writing", ids |-> ids,
                                            converted |-> <<>>]]
    /\ write_txn' = <<[owner |-> c, pano_ids_db |-> pano_ids_db,
                       settings_db |-> settings_db]>>
    /\ UNCHANGED <<pano_ids_db, settings_db, first_returned, searchVars, tileVars, fetchVars, restVars>>

\* the counter of a database that has interned all but two of the ids the
\* 31 bits can count
AlmostFull == <<32767, 65534>>

\* the tables hold the rows of the ids of the model only
InitIntern ==
    /\ IdleSearch
    /\ IdleTiles
    /\ IdleFetch
    /\ IdleRest
    /\ pano_ids_db = EmptyTable
    /\ settings_db \in {EmptyTable, Put(EmptyTable, NEXT_PANO_ID, ToLeBytes(AlmostFull))}
    /\ write_txn = <<>>
    /\ callers = [c \in 1..NCallers |-> IdleCaller]
    /\ first_returned = EmptyTable

NextIntern ==
    \E c \in 1..NCallers :
        \/ BeginIntern(c)
        \/ InternNext(c)
        \/ InternPanics(c)
        \/ Commit(c)

SpecIntern == InitIntern /\ [][NextIntern]_vars

(***************************************************************************)
(* The tile store.  Tiles are laid over the plane of the locations: a      *)
(* small tile (zoom SMALL_TILE_SIZE) is a square of SmallTileSide metres,  *)
(* x grows with the longitude and y against the latitude, and the tile of  *)
(* the next coarser zoom is made of four.  A SmallTile is [x, y], a        *)
(* SizedTile [size, x, y]; an Option is <<>> for None and <<v>> for        *)
(* Some(v).  Upstream answers a request with at most its cap of panos:     *)
(* TooManyPanos stands for the 2,900 of panos_near_coords.                 *)
(***************************************************************************)
SMALL_TILE_SIZE == 16

LARGEST_TILE_SIZE == 13

\* <<x, y>> of the small tile whose north-west corner is the location <<0, 0>>
TileOrigin == <<8, 8>>

\* SmallTile::from_loc, of a location given in centimetres
FromLoc(cm) ==
    [x |-> TileOrigin[1] + (cm[2] \div (100 * SmallTileSide)),
     y |-> TileOrigin[2] + ((-cm[1]) \div (100 * SmallTileSide))]

\* SizedTile::from(SmallTile)
Sized(tile) == [size |-> SMALL_TILE_SIZE, x |-> tile.x, y |-> tile.y]

\* the side in metres of a tile of the zoom
Side(size) == SmallTileSide * 2 ^ (SMALL_TILE_SIZE - size)

\* SizedTile::to_coords (SmallTile::to_loc for a small tile): the north-west
\* corner
ToCoords(tile) ==
    <<SmallTileSide * TileOrigin[2] - tile.y * Side(tile.size),
      tile.x * Side(tile.size) - SmallTileSide * TileOrigin[1]>>

\* SizedTile::coords_at_center
CoordsAtCenter(tile) ==
    <<ToCoords(tile)[1] - Side(tile.size) \div 2,
      ToCoords(tile)[2] + Side(tile.size) \div 2>>

\* SizedTile::next_larger
NextLarger(tile) == [size |-> tile.size - 1, x |-> tile.x \div 2, y |-> tile.y \div 2]

\* the tiles in the order in which the loop of get_all_sizes found them
SmallestFirst(tile) ==
    [i \in 1..(SMALL_TILE_SIZE - LARGEST_TILE_SIZE + 1) |->
        [size |-> SMALL_TILE_SIZE + 1 - i,
         x |-> tile.x \div 2 ^ (i - 1), y |-> tile.y \div 2 ^ (i - 1)]]

RECURSIVE LargerSizes(_)
LargerSizes(cur) ==
    IF cur.size = LARGEST_TILE_SIZE THEN <<cur>>
    ELSE LargerSizes(NextLarger(cur)) \o <<cur>>

\* SmallTile::get_all_sizes: the sized tiles over a small tile, largest first
GetAllSizes(tile) == LargerSizes(Sized(tile))

\* SmallTile::is_maybe_within_radius
IsMaybeWithinRadius(tile, loc, radius) ==
    LET base_tile_loc == ToCoords(Sized(tile))
        down_right_tile_loc == ToCoords(Sized([x |-> tile.x + 1, y |-> tile.y + 1]))
        min_coords == <<Min(base_tile_loc[1], down_right_tile_loc[1]),
                        Min(base_tile_loc[2], down_right_tile_loc[2])>>
        max_coords == <<Max(base_tile_loc[1], down_right_tile_loc[1]),
                        Max(base_tile_loc[2], down_right_tile_loc[2])>>
        closest_coord_in_tile_to_coords ==
            <<Max(min_coords[1], Min(loc[1], max_coords[1])),
              Max(min_coords[2], Min(loc[2], max_coords[2]))>>
    IN \/ /\ loc[1] >= min_coords[1] /\ loc[1] <= max_coords[1]
          /\ loc[2] >= min_coords[2] /\ loc[2] <= max_coords[2]
       \/ IsAtLeastWithinRadius(loc, closest_coord_in_tile_to_coords, radius)

\* calculate_lng_bounds: the points 1.01 * min_distance west and east, in
\* centimetres
CalculateLngBounds(loc, min_distance) ==
    <<100 * loc[2] - min_distance * 101, 100 * loc[2] + min_distance * 101>>

\* calculate_tile_bounds: <<min_tile, max_tile>>
CalculateTileBounds(loc, min_distance) ==
    LET lat == CalculateLatBounds(loc, min_distance)
        lng == CalculateLngBounds(loc, min_distance)
        tile_a == FromLoc(<<lat[1], lng[1]>>)
        tile_b == FromLoc(<<lat[2], lng[2]>>)
    IN <<[x |-> Min(tile_a.x, tile_b.x), y |-> Min(tile_a.y, tile_b.y)],
         [x |-> Max(tile_a.x, tile_b.x), y |-> Max(tile_a.y, tile_b.y)]>>

\* the small tiles the loops of get_nearby_panos and reset_cache_nearby visit,
\* in their order: x by x, y by y, without the tiles they skip
TilesToVisit(loc, min_distance) ==
    LET bounds == CalculateTileBounds(loc, min_distance)
        origin_tile == FromLoc(<<100 * loc[1], 100 * loc[2]>>)
        ny == bounds[2].y - bounds[1].y + 1
        nx == bounds[2].x - bounds[1].x + 1
        all == [k \in 1..(nx * ny) |->
                   [x |-> bounds[1].x + ((k - 1) \div ny),
                    y |-> bounds[1].y + ((k - 1) % ny)]]
    IN SelectSeq(all, LAMBDA tile : \/ tile = origin_tile
                                    \/ IsMaybeWithinRadius(tile, loc, min_distance))

\* panos_near_coords: [nearby, panos], the number of panos of upstream's
\* answer and the Option the call returns; an upstream pano is
\* [id, loc, actual]
PanosNearCoords(world, coords, radius_meters, bail_on_too_many_panos) ==
    LET nearby_panos ==
            SelectSeq(world, LAMBDA p : Distance(coords, p.loc) <= radius_meters)
    IN [nearby |-> Len(nearby_panos),
        panos |-> IF Len(nearby_panos) >= TooManyPanos /\ bail_on_too_many_panos
                  THEN <<>>
                  ELSE <<[i \in 1..Len(nearby_panos) |->
                             [id |-> nearby_panos[i].id, loc |-> nearby_panos[i].loc]]>>]

\* a list left in the order upstream gave it
Unsorted(panos) == panos

RECURSIVE SortByLat(_)
\* panos.sort_by(|a, b| a.loc.lat.cmp(&b.loc.lat)): a stable sort
SortByLat(panos) ==
    IF panos = <<>> THEN <<>>
    ELSE LET last == panos[Len(panos)]
             sorted == SortByLat(SubSeq(panos, 1, Len(panos) - 1))
             before == SelectSeq(sorted, LAMBDA p : p.loc[1] <= last.loc[1])
             after == SelectSeq(sorted, LAMBDA p : p.loc[1] > last.loc[1])
         IN before \o <<last>> \o after

\* a request that gives up at every zoom
BailAlways(tile) == TRUE

\* the bail_on_too_many_panos of try_get_panos_at_tile
BailOnTooManyPanos(tile) == tile.size # SMALL_TILE_SIZE

\* api::try_get_panos_at_tile against the panos upstream has: [nearby, panos]
TryGetPanosAtTile(world, tile) ==
    LET tile_center_coords == CoordsAtCenter(tile)
        tile_corner1_coords == ToCoords(tile)
        tile_corner2_coords == ToCoords([tile EXCEPT !.x = @ + 1, !.y = @ + 1])
        tile_min_coords == <<Min(tile_corner1_coords[1], tile_corner2_coords[1]),
                             Min(tile_corner1_coords[2], tile_corner2_coords[2])>>
        tile_max_coords == <<Max(tile_corner1_coords[1], tile_corner2_coords[1]),
                             Max(tile_corner1_coords[2], tile_corner2_coords[2])>>
        \* the distance is never whole: adding 5 and rounding up adds 6
        radius_meters == Distance(tile_corner1_coords, tile_center_coords) + 6
        near == PanosNearCoords(world, tile_center_coords, radius_meters,
                                BailOnTooManyPanos(tile))
    IN IF near.panos = <<>> THEN near
       ELSE [near EXCEPT !.panos =
                <<SortByLat(SelectSeq(near.panos[1],
                     LAMBDA pano : /\ pano.loc[1] >= tile_min_coords[1]
                                   /\ pano.loc[1] <= tile_max_coords[1]
                                   /\ pano.loc[2] >= tile_min_coords[2]
                                   /\ pano.loc[2] <= tile_max_coords[2]))>>]

\* a row that is the too-many marker whatever the panos
EncodeTooMany(panos) == <<0>>

\* encode_listentityphotos: the header, then id, search_loc and actual_loc
\* of each pano
EncodeListentityphotos(panos) ==
    IF panos = <<>> THEN <<0>>
    ELSE <<1>> \o [k \in 1..(3 * Len(panos[1])) |->
                      LET pano == panos[1][((k - 1) \div 3) + 1]
                      IN CASE k % 3 = 1 -> pano.id
                           [] k % 3 = 2 -> pano.search_loc
                           [] OTHER -> pano.actual_loc]

\* decode_listentityphotos
DecodeListentityphotos(data) ==
    IF data[1] = 0 THEN <<>>
    ELSE <<[i \in 1..((Len(data) - 1) \div 3) |->
              [id |-> data[3 * i - 1], search_loc |-> data[3 * i],
               actual_loc |-> data[3 * i + 1]]]>>

\* Db::lookup_listentityphotos: <<>> when the table has no row of the tile
LookupListentityphotos(table, tile) ==
    IF tile \in DOMAIN table THEN <<DecodeListentityphotos(table[tile])>> ELSE <<>>

\* Cache::remove
CacheRemove(cache, key) == [k \in DOMAIN cache \ {key} |-> cache[k]]

RECURSIVE ConvertAll(_, _, _)
\* the loop of uncached_get_panos_at_sized_tile that interns the ids of
\* api_res[i..] in one transaction: [panics, txn, converted_res]
ConvertAll(txn, api_res, i) ==
    IF i > Len(api_res) THEN [panics |-> FALSE, txn |-> txn, converted_res |-> <<>>]
    ELSE LET one == GetPanoIdWithTxn(txn, api_res[i].id)
             rest == ConvertAll(one.txn, api_res, i + 1)
         IN IF one.panics THEN [panics |-> TRUE, txn |-> txn, converted_res |-> <<>>]
            ELSE [rest EXCEPT !.converted_res =
                     <<[id |-> one.pano_id, loc |-> api_res[i].loc]>> \o @]

RECURSIVE SaveGetmetadata(_, _, _, _, _)
\* fetch_getmetadata_with_pano_ids: upstream answers for the ids it has, and
\* each answer is saved under its PanoId with the location the metadata gives
SaveGetmetadata(table, world, api_res, converted_res, i) ==
    IF i > Len(api_res) THEN table
    ELSE LET known == SelectSeq(world, LAMBDA p : p.id = api_res[i].id)
             saved == IF known = <<>> THEN table
                      ELSE Put(table, converted_res[i].id,
                               [loc |-> known[1].actual, links |-> <<>>])
         IN SaveGetmetadata(saved, world, api_res, converted_res, i + 1)

\* fetch_actual_locations_for_panos, without its insertion into the cache
FetchActualLocationsForPanos(table, panos) ==
    [i \in 1..Len(panos) |->
        [id |-> panos[i].id, search_loc |-> panos[i].loc,
         actual_loc |-> IF panos[i].id \in DOMAIN table
                        THEN table[panos[i].id].loc ELSE panos[i].loc]]

(***************************************************************************)
(* The tasks that use the tile store.  A task calls get_nearby_panos or    *)
(* reset_cache_nearby and is followed through the call: it is at "lookup"  *)
(* in the loop of get_panos_at_tile, at "request" while upstream has its   *)
(* request for tile, and at "store" once it has the answer.  Upstream may  *)
(* change between any two steps, and the pathfinding tasks that run beside *)
(* the call appear through the turns of their own get_panos_at_tile that   *)
(* fill the cache from the table; the cache holds 1,024 tiles and never    *)
(* evicts one of the few tiles here.  examined logs what one call of       *)
(* get_panos_at_tile saw, winners what the calls of one query or reset     *)
(* returned, refetched what the fetches of a reset returned.               *)
(***************************************************************************)
TileTasks == {"task"}

IdleTask ==
    [pc |-> "idle", op |-> "", loc |-> <<0, 0>>, min_distance |-> 0,
     tiles |-> <<>>, sizes |-> <<>>, tile |-> <<>>, refetch |-> FALSE,
     nearby |-> 0, api_res |-> <<>>, examined |-> <<>>, checked_tiles |-> <<>>,
     found_panos |-> <<>>, winners |-> <<>>, refetched |-> <<>>]

\* the task before the first turn of the loop over the small tiles
NewTileTask(op, loc, min_distance) ==
    LET tiles == TilesToVisit(loc, min_distance)
    IN [IdleTask EXCEPT !.pc = "lookup", !.op = op, !.loc = loc,
                        !.min_distance = min_distance, !.tiles = tiles,
                        !.sizes = GetAllSizes(tiles[1])]

\* the loop over the small tiles goes on to its next tile, or the call returns
NextSmallTile(task) ==
    IF Len(task.tiles) = 1
    THEN [task EXCEPT !.pc = "done", !.tiles = <<>>, !.sizes = <<>>, !.examined = <<>>]
    ELSE [task EXCEPT !.pc = "lookup", !.tiles = Tail(@),
                      !.sizes = GetAllSizes(task.tiles[2]), !.examined = <<>>]

\* the loop of get_panos_at_tile goes on to the next finer tile, and the
\* call panics when there is none
NextSize(task) ==
    IF Len(task.sizes) = 1 THEN [task EXCEPT !.pc = "panicked"]
    ELSE [task EXCEPT !.pc = "lookup", !.sizes = Tail(@)]

\* get_panos_at_tile has returned (tile, res) to the loop over the small
\* tiles: [task, cache] after the rest of that turn of the loop
Returned(task, cache, tile, res) ==
    LET logged == [task EXCEPT !.winners =
                       Append(@, [small |-> task.tiles[1], tile |-> tile, panos |-> res,
                                  examined |-> task.examined])]
        checked == [logged EXCEPT !.checked_tiles = Append(@, tile)]
        bounds == CalculateLatBounds(task.loc, task.min_distance)
    IN IF \E i \in 1..Len(task.checked_tiles) : task.checked_tiles[i] = tile
       THEN [task |-> NextSmallTile(logged), cache |-> cache]
       ELSE IF task.op = "get_nearby_panos"
       THEN [task |-> NextSmallTile(
                        [checked EXCEPT !.found_panos =
                            @ \o FilterPanosAtTile(task.loc, res, bounds[1], bounds[2],
                                                   task.min_distance)]),
             cache |-> cache]
       ELSE [task |-> [checked EXCEPT !.pc = "request", !.tile = tile, !.refetch = TRUE],
             cache |-> CacheRemove(cache, tile)]

\* one turn of the loop of get_panos_at_tile has the value of its tile from
\* the cache, the table or upstream: [task, cache]
Examined(task, cache, tile, value) ==
    LET logged == [task EXCEPT !.examined =
                       Append(@, [tile |-> tile, value |-> value])]
    IN IF value # <<>> THEN Returned(logged, cache, tile, value[1])
       ELSE [task |-> NextSize(logged), cache |-> cache]

\* get_panos_at_tile, one turn of its loop up to the request it may send
GetPanosAtTile(t) ==
    /\ tile_tasks[t].pc = "lookup"
    /\ LET task == tile_tasks[t]
           tile == task.sizes[1]
           hit == CacheGet(PANOS_AT_TILE_CACHE, tile)
           row == LookupListentityphotos(listentityphotos_db, tile)
           after == IF hit # <<>>
                    THEN Examined(task, PANOS_AT_TILE_CACHE, tile, hit[1])
                    ELSE IF row # <<>>
                    THEN Examined(task, Put(PANOS_AT_TILE_CACHE, tile, row[1]), tile,
                                  row[1])
                    ELSE [task |-> [task EXCEPT !.pc = "request", !.tile = tile,
                                                !.refetch = FALSE],
                          cache |-> PANOS_AT_TILE_CACHE]
       IN /\ tile_tasks' = [tile_tasks EXCEPT ![t] = after.task]
          /\ PANOS_AT_TILE_CACHE' = after.cache
    /\ UNCHANGED <<listentityphotos_db, upstream, searchVars, internVars, fetchVars, restVars>>

\* upstream answers the request of try_get_panos_at_tile
UpstreamAnswers(t) ==
    /\ tile_tasks[t].pc = "request"
    /\ LET answer == TryGetPanosAtTile(upstream, tile_tasks[t].tile)
       IN tile_tasks' = [tile_tasks EXCEPT ![t].pc = "store",
                                           ![t].nearby = answer.nearby,
                                           ![t].api_res = answer.panos]
    /\ UNCHANGED <<listentityphotos_db, PANOS_AT_TILE_CACHE, upstream, searchVars,
                   internVars, fetchVars, restVars>>

\* the request fails: the error goes up through every caller
UpstreamFails(t) ==
    /\ tile_tasks[t].pc = "request"
    /\ tile_tasks' = [tile_tasks EXCEPT ![t].pc = "failed"]
    /\ UNCHANGED <<listentityphotos_db, PANOS_AT_TILE_CACHE, upstream, searchVars,
                   internVars, fetchVars, restVars>>

\* uncached_get_panos_at_sized_tile from the answer on, and what its caller
\* does with the result: the loop of get_panos_at_tile, or the loop of
\* reset_cache_nearby, which drops it
UncachedGetPanosAtSizedTile(t) ==
    /\ tile_tasks[t].pc = "store"
    /\ write_txn = <<>>
    /\ \E task \in {tile_tasks[t]} :
       \E conv \in {IF task.api_res = <<>>
                    THEN [panics |-> FALSE, converted_res |-> <<>>,
                          txn |-> [pano_ids_db |-> pano_ids_db,
                                   settings_db |-> settings_db]]
                    ELSE ConvertAll([pano_ids_db |-> pano_ids_db,
                                     settings_db |-> settings_db], task.api_res[1], 1)} :
       \E saved \in {IF task.api_res = <<>> \/ conv.panics THEN metadata
                     ELSE SaveGetmetadata(metadata, upstream, task.api_res[1],
                                          conv.converted_res, 1)} :
       \E res \in {IF task.api_res = <<>> THEN <<>>
                   ELSE <<FetchActualLocationsForPanos(saved, conv.converted_res)>>} :
       \E cache \in {IF res = <<>> THEN PANOS_AT_TILE_CACHE
                     ELSE Put(PANOS_AT_TILE_CACHE, task.tile, res)} :
       \E after \in {IF task.refetch
                     THEN [task |-> NextSmallTile(
                                      [task EXCEPT !.refetched =
                                          Append(@, [tile |-> task.tile, res |-> res])]),
                           cache |-> cache]
                     ELSE Examined(task, cache, task.tile, res)} :
         IF conv.panics
         THEN /\ tile_tasks' = [tile_tasks EXCEPT ![t].pc = "panicked"]
              /\ UNCHANGED <<listentityphotos_db, PANOS_AT_TILE_CACHE, pano_ids_db,
                             settings_db, metadata>>
         ELSE /\ pano_ids_db' = conv.txn.pano_ids_db
              /\ settings_db' = conv.txn.settings_db
              /\ metadata' = saved
              /\ listentityphotos_db' =
                     Put(listentityphotos_db, task.tile, EncodeListentityphotos(res))
              /\ PANOS_AT_TILE_CACHE' = after.cache
              /\ tile_tasks' = [tile_tasks EXCEPT ![t] =
                                   [after.task EXCEPT !.nearby = 0, !.api_res = <<>>]]
    /\ UNCHANGED <<upstream, panos_at_tile, option_cache, settings, astar,
                   progress_updates, handler, client, last_options,
                   write_txn, callers, first_returned, fetchVars, restVars>>

\* the caller has the result or the error of the call
TileTaskReturns(t) ==
    /\ tile_tasks[t].pc \in {"done", "failed"}
    /\ tile_tasks' = [tile_tasks EXCEPT ![t] = IdleTask]
    /\ UNCHANGED <<listentityphotos_db, PANOS_AT_TILE_CACHE, upstream, searchVars,
                   internVars, fetchVars, restVars>>

\* what upstream may have: panos west and east of the edge between the small
\* tiles 8 and 9, two of them on the latitude bounds of a query at
\* <<-200, 400>>, and one far to the east
WestPano == [id |-> Official, loc |-> <<-200, 350>>, actual |-> <<-200, 352>>]

EastPano == [id |-> ThirdParty, loc |-> <<-200, 450>>, actual |-> <<-200, 450>>]

SouthPano == [id |-> Ciab, loc |-> <<-301, 380>>, actual |-> <<-301, 380>>]

NorthPano == [id |-> LongId, loc |-> <<-99, 420>>, actual |-> <<-99, 420>>]

MidPano == [id |-> <<"m">>, loc |-> <<-270, 390>>, actual |-> <<-270, 390>>]

FarEastPano == [id |-> <<"f">>, loc |-> <<-200, 1500>>, actual |-> <<-200, 1500>>]

\* few panos, panos spread out, and many panos close together, each in the
\* order in which upstream lists them
Sparse == <<WestPano, SouthPano>>

Spread == <<FarEastPano, WestPano, SouthPano>>

Dense == <<NorthPano, WestPano, SouthPano, EastPano, MidPano>>

TileWorlds == {Sparse, Spread, Dense}

\* the calls: [loc, min_distance]
NearbyCalls == {[loc |-> <<-200, 400>>, min_distance |-> 100],
                [loc |-> <<-200, 200>>, min_distance |-> 100]}

ResetCalls == {[loc |-> <<-200, 400>>, min_distance |-> 100]}

\* a pathfinding task calls get_nearby_panos
CallGetNearbyPanos(t) ==
    /\ tile_tasks[t].pc = "idle"
    /\ \E call \in NearbyCalls :
         tile_tasks' = [tile_tasks EXCEPT ![t] =
                           NewTileTask("get_nearby_panos", call.loc, call.min_distance)]
    /\ UNCHANGED <<listentityphotos_db, PANOS_AT_TILE_CACHE, upstream, searchVars,
                   internVars, fetchVars, restVars>>

\* watch_websocket calls reset_cache_nearby
CallResetCacheNearby(t) ==
    /\ tile_tasks[t].pc = "idle"
    /\ \E call \in ResetCalls :
         tile_tasks' = [tile_tasks EXCEPT ![t] =
                           NewTileTask("reset_cache_nearby", call.loc, call.min_distance)]
    /\ UNCHANGED <<listentityphotos_db, PANOS_AT_TILE_CACHE, upstream, searchVars,
                   internVars, fetchVars, restVars>>

\* panos appear upstream or vanish from it
UpstreamChanges ==
    /\ upstream' \in TileWorlds \ {upstream}
    /\ UNCHANGED <<listentityphotos_db, PANOS_AT_TILE_CACHE, tile_tasks, searchVars,
                   internVars, fetchVars, restVars>>

\* a turn of the loop of get_panos_at_tile in another task: the cache has no
\* entry of the tile, the table has its row, and the row is put in the cache
ConcurrentLookup ==
    /\ \E tile \in DOMAIN listentityphotos_db \ DOMAIN PANOS_AT_TILE_CACHE :
         PANOS_AT_TILE_CACHE' =
             Put(PANOS_AT_TILE_CACHE, tile,
                 LookupListentityphotos(listentityphotos_db, tile)[1])
    /\ UNCHANGED <<listentityphotos_db, upstream, tile_tasks, searchVars, internVars, fetchVars, restVars>>

\* an empty database: no tile, no metadata and no pano id yet
InitTiles ==
    /\ panos_at_tile = <<>>
    /\ metadata = EmptyTable
    /\ option_cache = EmptyCache
    /\ settings = IdleSettings
    /\ astar = NoTasks
    /\ progress_updates = NoTasks
    /\ handler = IdleHandler
    /\ client = NewClient
    /\ last_options = <<>>
    /\ IdleIntern
    /\ IdleFetch
    /\ IdleRest
    /\ listentityphotos_db = EmptyTable
    /\ PANOS_AT_TILE_CACHE = EmptyTable
    /\ upstream \in TileWorlds
    /\ tile_tasks = [t \in TileTasks |-> IdleTask]

NextTiles ==
    \/ UpstreamChanges
    \/ ConcurrentLookup
    \/ \E t \in TileTasks :
         \/ CallGetNearbyPanos(t)
         \/ CallResetCacheNearby(t)
         \/ GetPanosAtTile(t)
         \/ UpstreamAnswers(t)
         \/ UpstreamFails(t)
         \/ UncachedGetPanosAtSizedTile(t)
         \/ TileTaskReturns(t)

SpecTiles == InitTiles /\ [][NextTiles]_vars

(***************************************************************************)
(* fetch_getmetadata_responses (src/src/streetview/api.rs): the batch of   *)
(* pano ids is requested from upstream's GetMetadata service in a loop     *)
(* that counts its attempts.  getmetadata_fetch is <<>> while nobody       *)
(* calls, and <<call>> with the locals of the call otherwise; requests     *)
(* logs the attempt number of every request sent.                          *)
(***************************************************************************)
\* api.rs:144  the attempt number a throttled answer must exceed for the
\* call to give up
RETRY_LIMIT == 10

\* a call that gives up on reaching the limit
GivesUpAtLimit(attempt_number) == attempt_number >= RETRY_LIMIT

\* the test on attempt_number after an answer without an array
GivesUp(attempt_number) == attempt_number > RETRY_LIMIT

\* the batches requested: ids as the tile lists spell them
FetchBatches ==
    {<<Official>>, <<ThirdParty, Official>>, <<Ciab, LongId>>,
     <<EncodeProtobufPano(Official), <<"f">>>>}

\* the call up to its first request: the ids are decoded, attempt_number is 1
NewFetch(pano_ids) ==
    [pc |-> "request",
     pano_ids |-> [i \in 1..Len(pano_ids) |-> DecodeProtobufPano(pano_ids[i]).str],
     attempt_number |-> 1, requests |-> <<1>>, result |-> <<>>, error |-> ""]

\* the array of upstream's answer: one reply, [id, loc], for every id of the
\* request that upstream has a pano for
GetMetadataReplies(world, pano_ids) ==
    LET known(id) == SelectSeq(world, LAMBDA p : DecodeProtobufPano(p.id).str = id)
        asked == SelectSeq(pano_ids, LAMBDA id : known(id) # <<>>)
    IN [i \in 1..Len(asked) |-> [id |-> asked[i], loc |-> known(asked[i])[1].actual]]

\* somebody calls fetch_getmetadata_responses
CallFetchGetmetadataResponses ==
    /\ getmetadata_fetch = <<>>
    /\ \E pano_ids \in FetchBatches : getmetadata_fetch' = <<NewFetch(pano_ids)>>
    /\ UNCHANGED <<searchVars, internVars, tileVars, restVars>>

\* upstream answers with an array: parse_getmetadata_response interns the id
\* of every reply and the call returns the responses
FetchAnswersArray ==
    /\ getmetadata_fetch # <<>>
    /\ getmetadata_fetch[1].pc = "request"
    /\ write_txn = <<>>
    /\ \E call \in {getmetadata_fetch[1]} :
       \E conv \in {ConvertAll([pano_ids_db |-> pano_ids_db, settings_db |-> settings_db],
                               GetMetadataReplies(upstream, call.pano_ids), 1)} :
         IF conv.panics
         THEN /\ getmetadata_fetch' = <<[call EXCEPT !.pc = "panicked"]>>
              /\ UNCHANGED <<pano_ids_db, settings_db>>
         ELSE /\ getmetadata_fetch' =
                     <<[call EXCEPT !.pc = "returned",
                                    !.result =
                                        [i \in 1..Len(conv.converted_res) |->
                                            [id |-> conv.converted_res[i].id,
                                             loc |-> conv.converted_res[i].loc,
                                             links |-> <<>>]]]>>
              /\ pano_ids_db' = conv.txn.pano_ids_db
              /\ settings_db' = conv.txn.settings_db
    /\ UNCHANGED <<searchVars, write_txn, callers, first_returned, tileVars, restVars>>

\* upstream answers with JSON that has no array at [1], as it does when it
\* throttles: the call gives up or goes to sleep for a second
FetchAnswersNonArray ==
    /\ getmetadata_fetch # <<>>
    /\ getmetadata_fetch[1].pc = "request"
    /\ getmetadata_fetch' =
           <<IF GivesUp(getmetadata_fetch[1].attempt_number)
             THEN [getmetadata_fetch[1] EXCEPT
                      !.pc = "failed", !.error = "Invalid GetMetadata response"]
             ELSE [getmetadata_fetch[1] EXCEPT !.pc = "sleep"]>>
    /\ UNCHANGED <<searchVars, internVars, tileVars, restVars>>

\* the sleep is over: the next turn of the loop counts its attempt and sends
\* the request again
FetchRetries ==
    /\ getmetadata_fetch # <<>>
    /\ getmetadata_fetch[1].pc = "sleep"
    /\ getmetadata_fetch' =
           <<[getmetadata_fetch[1] EXCEPT
                 !.pc = "request",
                 !.attempt_number = @ + 1,
                 !.requests = Append(@, getmetadata_fetch[1].attempt_number + 1)]>>
    /\ UNCHANGED <<searchVars, internVars, tileVars, restVars>>

\* the answer is not JSON: the call fails at once
FetchAnswersNotJson ==
    /\ getmetadata_fetch # <<>>
    /\ getmetadata_fetch[1].pc = "request"
    /\ getmetadata_fetch' =
           <<[getmetadata_fetch[1] EXCEPT
                 !.pc = "failed", !.error = "Failed to parse JSON response"]>>
    /\ UNCHANGED <<searchVars, internVars, tileVars, restVars>>

\* the request or the reading of its answer fails: the error leaves the call
FetchSendFails ==
    /\ getmetadata_fetch # <<>>
    /\ getmetadata_fetch[1].pc = "request"
    /\ getmetadata_fetch' = <<[getmetadata_fetch[1] EXCEPT !.pc = "failed", !.error = "send"]>>
    /\ UNCHANGED <<searchVars, internVars, tileVars, restVars>>

\* the caller has the responses or the error
FetchReturns ==
    /\ getmetadata_fetch # <<>>
    /\ getmetadata_fetch[1].pc \in {"returned", "failed"}
    /\ getmetadata_fetch' = <<>>
    /\ UNCHANGED <<searchVars, internVars, tileVars, restVars>>

\* an empty database and an upstream that has some panos
InitFetch ==
    /\ IdleSearch
    /\ IdleIntern
    /\ listentityphotos_db = EmptyTable
    /\ PANOS_AT_TILE_CACHE = EmptyTable
    /\ upstream \in TileWorlds
    /\ tile_tasks = <<>>
    /\ IdleFetch
    /\ IdleRest

NextFetch ==
    \/ CallFetchGetmetadataResponses
    \/ FetchAnswersArray
    \/ FetchAnswersNonArray
    \/ FetchRetries
    \/ FetchAnswersNotJson
    \/ FetchSendFails
    \/ FetchReturns

SpecFetch == InitFetch /\ [][NextFetch]_vars

(***************************************************************************)
(* The options graph a search walks: the edges out of a node are the       *)
(* options get_options gives for it, at the cost the relaxation loop       *)
(* charges; only the node that used the turnaround has its flipped options.*)
(***************************************************************************)
GraphOptions(n, turned) ==
    GetOptions(n.pano, n.heading, turned # <<>> /\ SameNode(turned[1], n),
               FALSE, EmptyCache, panos_at_tile, metadata).options

EdgesOf(n, turned) ==
    LET options == GraphOptions(n, turned)
    IN {[from |-> n,
         to |-> [pano |-> options[i].pano, heading |-> options[i].heading],
         cost |-> NeighborCost(options, i, n.heading, settings)] :
        i \in {j \in 1..Len(options) :
                   ~IsLongJump(n.pano.loc, options[j].pano.loc, settings)}}

RECURSIVE Explore(_, _, _, _)
\* the edges reachable from the frontier
Explore(frontier, seen, edges, turned) ==
    IF frontier = {} THEN edges
    ELSE LET new == UNION {EdgesOf(n, turned) : n \in frontier}
             seen2 == seen \cup frontier
         IN Explore({e.to : e \in new} \ seen2, seen2, edges \cup new, turned)

\* the start node and the node that used the turnaround, of a running search
StartNode(a) == a.nodes[1].ident

TurnedNode(a) == IF a.turned_at = SENTINEL THEN <<>> ELSE <<a.nodes[a.turned_at + 1].ident>>

GraphEdges(a) == Explore({StartNode(a)}, {}, {}, TurnedNode(a))

GraphNodes(a, edges) == {StartNode(a)} \cup {e.to : e \in edges}

RECURSIVE CheapestFrom(_, _, _)
\* Bellman-Ford: the least cost from the start to every node, after k more
\* rounds
CheapestFrom(dist, edges, k) ==
    IF k = 0 THEN dist
    ELSE CheapestFrom(
             [n \in DOMAIN dist |->
                 LET via == {dist[e.from] + e.cost : e \in {x \in edges : x.to = n}}
                     all == via \cup {dist[n]}
                 IN CHOOSE c \in all : \A d \in all : c <= d],
             edges, k - 1)

\* the least cost of a route from the start to a node passing the goal test;
\* COST_MAX when there is none
OptimalCost(a, edges) ==
    LET ns == GraphNodes(a, edges)
        dist == CheapestFrom([n \in ns |-> IF n = StartNode(a) THEN 0 ELSE COST_MAX],
                             edges, Cardinality(ns))
        goals == {dist[n] : n \in {x \in ns : IsGoalReached(x, a.goal)}} \cup {COST_MAX}
    IN CHOOSE c \in goals : \A d \in goals : c <= d

\* whether every step of the route is an edge of the graph
IsRouteOf(route, edges) ==
    \A i \in 1..(Len(route) - 1) :
        \E e \in edges : e.from = route[i] /\ e.to = route[i + 1]

RECURSIVE RouteCost(_, _, _)
\* the total edge cost of the route from step i on
RouteCost(route, edges, i) ==
    IF i >= Len(route) THEN 0
    ELSE (CHOOSE e \in edges : e.from = route[i] /\ e.to = route[i + 1]).cost
         + RouteCost(route, edges, i + 1)

\* the heuristic never drops by more than the cost of the edge walked
IsConsistent(a, edges) ==
    \A e \in edges :
        Heuristic(e.from, a.goal, settings.heuristic_factor)
            <= e.cost + Heuristic(e.to, a.goal, settings.heuristic_factor)

\* no node passing the goal test has a larger heuristic than the last node of
\* the route
EndsAtFarthestGoal(a, edges) ==
    \A n \in GraphNodes(a, edges) :
        IsGoalReached(n, a.goal) =>
            Heuristic(n, a.goal, settings.heuristic_factor)
                <= Heuristic(a.route[Len(a.route)], a.goal, settings.heuristic_factor)

(***************************************************************************)
(* C1.  As stated: the route astar returns has a total edge cost that is   *)
(* minimal among all routes from the start node to a node passing the goal *)
(* test, for every heuristic_factor in [1.0, 4.0].                         *)
(***************************************************************************)
C1_MinimalForEveryFactor ==
    \A t \in DOMAIN astar :
        astar[t].pc = "found" =>
            LET edges == GraphEdges(astar[t])
            IN RouteCost(astar[t].route, edges, 1) = OptimalCost(astar[t], edges)

(***************************************************************************)
(* C1, amended.  The route astar returns is a route of the options graph   *)
(* from the start node to a node passing the goal test; its total edge     *)
(* cost is minimal when the heuristic is consistent with the edge costs    *)
(* (it never drops along an edge by more than the edge costs) and no goal  *)
(* node has a larger heuristic than the node the route ends at.            *)
(***************************************************************************)
C1_MinimalWhenConsistent ==
    \A t \in DOMAIN astar :
        astar[t].pc = "found" =>
            LET a == astar[t]
                edges == GraphEdges(a)
            IN /\ a.route # <<>>
               /\ a.route[1] = StartNode(a)
               /\ IsGoalReached(a.route[Len(a.route)], a.goal)
               /\ IsRouteOf(a.route, edges)
               /\ (IsConsistent(a, edges) /\ EndsAtFarthestGoal(a, edges)) =>
                      RouteCost(a.route, edges, 1) = OptimalCost(a, edges)

\* a search returned a route of several steps although the graph has a
\* dearer route to the goal as well, under a consistent heuristic
C1_Witness ==
    \E t \in DOMAIN astar :
        /\ astar[t].pc = "found"
        /\ Len(astar[t].route) >= 3
        /\ LET a == astar[t]
               edges == GraphEdges(a)
           IN /\ IsConsistent(a, edges)
              /\ EndsAtFarthestGoal(a, edges)
              /\ \E n \in GraphNodes(a, edges) :
                     /\ IsGoalReached(n, a.goal)
                     /\ n # a.route[Len(a.route)]

(***************************************************************************)
(* C2.  In every state of a search, the start node is entry 0 with         *)
(* came_from = SENTINEL, every other entry's came_from is an existing      *)
(* entry of strictly smaller g_score, so that the path reconstructed from  *)
(* any entry begins at the start node and ends at that entry; the route    *)
(* returned and the best and current paths published do so too.            *)
(***************************************************************************)
C2_CameFromReachesStart ==
    \A t \in DOMAIN astar :
        LET a == astar[t]
            start_point == ToGeojson(StartNode(a).pano.loc)
            points == {ToGeojson(a.nodes[i].ident.pano.loc) : i \in 1..Len(a.nodes)}
            published == {progress_updates[t].best_path, progress_updates[t].current_path}
        IN a.nodes # <<>> =>
            /\ a.nodes[1].came_from = SENTINEL
            /\ \A i \in 2..Len(a.nodes) :
                   /\ a.nodes[i].came_from \in 0..(Len(a.nodes) - 1)
                   /\ a.nodes[a.nodes[i].came_from + 1].g_score < a.nodes[i].g_score
            /\ \A i \in 1..Len(a.nodes) :
                   LET path == ReconstructPath(a.nodes, i - 1)
                   IN /\ path # <<>>
                      /\ path[1] = StartNode(a)
                      /\ path[Len(path)] = a.nodes[i].ident
            /\ a.pc = "found" =>
                   /\ a.route # <<>>
                   /\ a.route[1] = StartNode(a)
                   /\ a.route = ReconstructPath(a.nodes,
                                                EntryIndex(a.nodes, a.route[Len(a.route)]))
            /\ \A path \in published :
                   path # <<>> => path[1] = start_point /\ path[Len(path)] \in points

\* a search that improved an entry already in the map (its came_from was
\* rewritten, the heap still holds the dearer entry) and has published a best
\* path of several points
C2_Witness ==
    \E t \in DOMAIN astar :
        /\ Len(progress_updates[t].best_path) >= 3
        /\ \E e \in astar[t].open_set :
               e.g_score > astar[t].nodes[e.index + 1].g_score

(***************************************************************************)
(* C3.  As stated: astar ends in exactly one of two ways, success or the   *)
(* "No path found" error.                                                  *)
(***************************************************************************)
C3_EndsInOneOfTwoWays ==
    \A t \in DOMAIN astar : astar[t].pc \in {"spawned", "loop", "found", "no_path"}

(***************************************************************************)
(* C3, amended.  On a finite options graph astar eventually returns, in    *)
(* exactly one of three ways: success when a popped node passes the goal   *)
(* test; the "No path found" error when, and only when, the heap is empty; *)
(* or an error passed on from the start snap or from get_options.          *)
(***************************************************************************)
C3_EndsInOneOfThreeWays ==
    /\ <>(\A t \in DOMAIN astar : astar[t].pc \in {"found", "no_path", "failed"})
    /\ [](\A t \in DOMAIN astar :
              /\ astar[t].pc = "no_path" =>
                     astar[t].open_set = {} /\ astar[t].error = "No path found"
              /\ astar[t].pc = "found" =>
                     IsGoalReached(astar[t].route[Len(astar[t].route)], astar[t].goal)
              /\ astar[t].pc = "failed" =>
                     astar[t].error \in {"start position isn't near a pano", "upstream"})
    /\ [][\A t \in DOMAIN astar :
              (astar[t].pc = "loop" /\ astar[t].open_set = {}) =>
                  astar'[t].pc \in {"loop", "no_path"}]_vars

\* a search that ran out of nodes after expanding several
C3_Witness ==
    \E t \in DOMAIN astar :
        /\ astar[t].pc = "no_path"
        /\ astar[t].nodes_considered >= 3
        /\ astar[t].open_set = {}

(***************************************************************************)
(* C4.  When the search of a segment ends with "No path found", the client *)
(* of the request receives an error message: once the handler is done with *)
(* a request of which a segment had no path, a client that is still        *)
(* connected has received an error.                                        *)
(***************************************************************************)
C4_NoPathReachesClient ==
    (/\ handler.pc = "done"
     /\ client.connected
     /\ \E t \in DOMAIN astar : astar[t].pc = "no_path")
        => client.errors # <<>>

(***************************************************************************)
(* C5.  When the task of a segment fails with an error other than "No path *)
(* found", the request ends: the handler eventually leaves its merge loop. *)
(***************************************************************************)
C5_FailureEndsRequest ==
    (\E t \in DOMAIN astar : astar[t].pc = "failed")
        ~> (handler.pc \in {"done", "aborted", "rejected"})

(***************************************************************************)
(* C6.  The percent_done written to the slot of a segment never decreases, *)
(* from the 0 the slot starts with, and neither does the merged            *)
(* percent_done of the messages the client receives.                       *)
(***************************************************************************)
C6_PercentNeverDecreases ==
    [][/\ \A t \in DOMAIN progress_updates \cap DOMAIN progress_updates' :
              progress_updates'[t].percent_done >= progress_updates[t].percent_done
       /\ (client.last_message # <<>> /\ client'.last_message # <<>>) =>
              client'.last_message[1].percent_done
                  >= client.last_message[1].percent_done]_vars

(***************************************************************************)
(* C7.  Every progress message rebuilds the merged paths: the first        *)
(* keep_prefix_length points of the path sent before, then the append      *)
(* points, are the newly merged path, and keep_prefix_length is the length *)
(* of the longest common prefix of the old and the new path, also when the *)
(* new path is shorter than the old one or leaves it midway.               *)
(***************************************************************************)
C7_DiffRebuildsPath ==
    [][client'.last_message # client.last_message =>
         LET m == client'.last_message[1]
             LongestCommonPrefix(old_path, new_path) ==
                 CHOOSE k \in 0..Min(Len(old_path), Len(new_path)) :
                     /\ \A i \in 1..k : old_path[i] = new_path[i]
                     /\ \/ k = Min(Len(old_path), Len(new_path))
                        \/ old_path[k + 1] # new_path[k + 1]
         IN /\ ApplyDiff(handler.last_combined_best_path,
                         m.best_path_keep_prefix_length, m.best_path_append)
                   = handler'.last_combined_best_path
            /\ ApplyDiff(handler.last_combined_current_path,
                         m.current_path_keep_prefix_length, m.current_path_append)
                   = handler'.last_combined_current_path
            /\ m.best_path_keep_prefix_length
                   = LongestCommonPrefix(handler.last_combined_best_path,
                                         handler'.last_combined_best_path)
            /\ m.current_path_keep_prefix_length
                   = LongestCommonPrefix(handler.last_combined_current_path,
                                         handler'.last_combined_current_path)
            /\ client'.best_path = handler'.last_combined_best_path
            /\ client'.current_path = handler'.last_combined_current_path]_vars

\* the client has just dropped points of a path it held and put others in
\* their place after the prefix it kept, and another time dropped points and
\* got none in their place
C7_Witness ==
    /\ client.last_message # <<>>
    /\ \/ /\ client.dropped[2] > 0
          /\ client.last_message[1].current_path_keep_prefix_length > 0
          /\ client.last_message[1].current_path_append # <<>>
       \/ /\ client.dropped[1] > 0
          /\ client.last_message[1].best_path_keep_prefix_length > 0
          /\ client.last_message[1].best_path_append # <<>>

(***************************************************************************)
(* C8.  A merged update has the least percent_done of the slots, the sum   *)
(* of the nodes_considered of all slots, and the best_path_cost and the    *)
(* combined best path of the slots in segment order up to and including    *)
(* the first slot whose percent_done is below 1; no later slot adds to the *)
(* cost or the path.                                                       *)
(***************************************************************************)
C8_MergedFromSlots ==
    [][client'.last_message # client.last_message =>
         LET m == client'.last_message[1]
             n == Len(progress_updates)
             unfinished == {i \in 1..n : progress_updates[i].percent_done < PERCENT_ONE}
             last == IF unfinished = {} THEN n
                     ELSE CHOOSE i \in unfinished : \A j \in unfinished : i <= j
             RECURSIVE NodesUpTo(_), CostUpTo(_), BestPathUpTo(_)
             NodesUpTo(i) == IF i = 0 THEN 0
                             ELSE NodesUpTo(i - 1) + progress_updates[i].nodes_considered
             CostUpTo(i) == IF i = 0 THEN 0
                            ELSE CostUpTo(i - 1) + progress_updates[i].best_path_cost
             BestPathUpTo(i) == IF i = 0 THEN <<>>
                                ELSE BestPathUpTo(i - 1) \o progress_updates[i].best_path
         IN /\ \E i \in 1..n : m.percent_done = progress_updates[i].percent_done
            /\ \A i \in 1..n : m.percent_done <= progress_updates[i].percent_done
            /\ m.nodes_considered = NodesUpTo(n)
            /\ m.best_path_cost = CostUpTo(last)
            /\ handler'.last_combined_best_path = BestPathUpTo(last)
            /\ client'.best_path = BestPathUpTo(last)]_vars

\* the client holds the update merged from a first slot that is not done and
\* a second slot that is done with a route: the route of the second is left
\* out
C8_Witness ==
    /\ Len(progress_updates) = 2
    /\ progress_updates[1].percent_done < PERCENT_ONE
    /\ progress_updates[1].best_path # <<>>
    /\ progress_updates[2].percent_done = PERCENT_ONE
    /\ progress_updates[2].best_path # <<>>
    /\ client.last_message # <<>>
    /\ client.last_message[1].nodes_considered =
           progress_updates[1].nodes_considered + progress_updates[2].nodes_considered
    /\ client.last_message[1].best_path_cost = progress_updates[1].best_path_cost
    /\ client.best_path = progress_updates[1].best_path

(***************************************************************************)
(* C9.  As stated: a query is rejected with an error message, and no task  *)
(* is launched, when it has more than 200 waypoints (its stops and its     *)
(* end), when the distance start -> stops -> end exceeds 1000 km, or when  *)
(* a waypoint has no pano within any of the radii 100, 500, 1000, 2000 m.  *)
(***************************************************************************)
C9_RejectedBeyondLimits ==
    LET msg == handler.msg
        waypoints == Append(msg.stops, msg.end)
        Unsnappable(loc) ==
            \A k \in 1..Len(SnapRadii) :
                GetNearestPano(panos_at_tile, loc, SnapRadii[k]) = <<>>
    IN handler.pc \in {"merging", "rejected"} =>
          ((\/ Len(waypoints) > MAX_STOPS
            \/ TotalDistance(msg.start, waypoints) > MAX_TOTAL_DISTANCE
            \/ \E i \in 1..Len(waypoints) : Unsnappable(waypoints[i]))
           => (handler.pc = "rejected" /\ client.errors # <<>> /\ astar = NoTasks))

(***************************************************************************)
(* C9, amended.  A query is rejected with an error message, and no task is *)
(* launched, when it has more than 200 stops (its end not counted), when a *)
(* stop or the end has no pano within any of the radii 100, 500, 1000,     *)
(* 2000 m, or when the distance from the start over the panos the stops    *)
(* and the end were snapped to exceeds 1000 km; a stop is snapped to the   *)
(* nearest pano within the first of the radii that holds one.              *)
(***************************************************************************)
C9_RejectedBeyondCodeLimits ==
    LET msg == handler.msg
        waypoints == Append(msg.stops, msg.end)
        Unsnappable(loc) ==
            \A k \in 1..Len(SnapRadii) :
                GetNearestPano(panos_at_tile, loc, SnapRadii[k]) = <<>>
        FirstRadius(loc) ==
            CHOOSE k \in 1..Len(SnapRadii) :
                /\ GetNearestPano(panos_at_tile, loc, SnapRadii[k]) # <<>>
                /\ \A j \in 1..(k - 1) :
                       GetNearestPano(panos_at_tile, loc, SnapRadii[j]) = <<>>
        SnappedTo(loc) ==
            GetNearestPano(panos_at_tile, loc, SnapRadii[FirstRadius(loc)])[1].loc
        unsnappable == \E i \in 1..Len(waypoints) : Unsnappable(waypoints[i])
        snapped == [i \in 1..Len(waypoints) |-> SnappedTo(waypoints[i])]
    IN handler.pc \in {"merging", "rejected"} =>
          /\ (\/ Len(msg.stops) > MAX_STOPS
              \/ unsnappable
              \/ TotalDistance(msg.start, snapped) > MAX_TOTAL_DISTANCE)
             => (handler.pc = "rejected" /\ Len(client.errors) = 1 /\ astar = NoTasks)
          /\ handler.pc = "merging" =>
                 /\ Len(astar) = Len(waypoints)
                 /\ \A i \in 1..Len(waypoints) : astar[i].goal = snapped[i]

\* a query of 200 stops that snap at the widest radius only, rejected for
\* its length
C9_Witness ==
    /\ handler.pc = "rejected"
    /\ Len(handler.msg.stops) = MAX_STOPS
    /\ handler.msg.stops[1] = <<0, 1500>>
    /\ client.errors = <<"Your path is more than 1000km long">>
    /\ astar = NoTasks

(***************************************************************************)
(* C10.  The option cache is transparent: after any calls of               *)
(* get_options_no_turnaround and any resets of the tile, a call with the   *)
(* option cache gives the options a call without it gives for the same     *)
(* pano id and heading, whatever location the caller passes for the pano.  *)
(***************************************************************************)
C10_CacheTransparent ==
    \A id \in CallPanos, heading \in CallHeadings :
    \A loc \in CallLocs(id) :
        GetOptionsNoTurnaround([id |-> id, loc |-> loc], heading, TRUE,
                               option_cache, panos_at_tile, metadata).options
      = GetOptionsNoTurnaround([id |-> id, loc |-> loc], heading, FALSE,
                               option_cache, panos_at_tile, metadata).options

C12_CounterGrowsWithMapping ==
    /\ [](\A k \in DOMAIN pano_ids_db :
            /\ U32Less(CounterPart(pano_ids_db[k]), GetPanoCount(settings_db))
            /\ \A other \in DOMAIN pano_ids_db \ {k} :
                  CounterPart(pano_ids_db[other]) # CounterPart(pano_ids_db[k]))
    /\ [][LET RECURSIVE Grown(_, _)
              Grown(counter, n) ==
                  IF n = 0 THEN counter ELSE Grown(CheckedAddOne(counter)[1], n - 1)
              interned == DOMAIN pano_ids_db' \ DOMAIN pano_ids_db
          IN /\ ~U32Less(GetPanoCount(settings_db'), GetPanoCount(settings_db))
             /\ GetPanoCount(settings_db')
                  = Grown(GetPanoCount(settings_db), Cardinality(interned))]_vars

\* two ids interned and one more call that hit
C12_Witness ==
    /\ GetPanoCount(settings_db) = <<0, 2>>
    /\ Cardinality(DOMAIN pano_ids_db) = 2
    /\ Cardinality(DOMAIN first_returned) = 3

(***************************************************************************)
(* C13 as stated: the top bit of the PanoId returned for an id is 1 if and *)
(* only if the identifier as it was passed to get_pano_id is a third-party *)
(* id (is_third_party_pano).                                               *)
(***************************************************************************)
C13_TopBitFollowsPassedId ==
    \A s \in DOMAIN first_returned :
        IsPhotosphere(first_returned[s]) <=> IsThirdPartyPano(s)

(***************************************************************************)
(* C13 amended: the top bit of the PanoId returned for an id is 1 if and   *)
(* only if the identifier is a third-party id after decode_protobuf_pano   *)
(* has taken it out of its envelope.                                       *)
(***************************************************************************)
C13_TopBitFollowsDecodedId ==
    \A s \in DOMAIN first_returned :
        IsPhotosphere(first_returned[s])
        <=> IsThirdPartyPano(DecodeProtobufPano(s).str)

\* the wrapped official pano without the flag, photospheres with it
C13_Witness ==
    /\ {EncodeProtobufPano(Official), ThirdParty, LongId} \subseteq DOMAIN first_returned
    /\ ~IsPhotosphere(first_returned[EncodeProtobufPano(Official)])
    /\ IsPhotosphere(first_returned[ThirdParty])
    /\ IsPhotosphere(first_returned[LongId])

(***************************************************************************)
(* C14: interning a new id when the counter has reached 2^31 is fatal and  *)
(* leaves the committed database as it was; no counter of 2^31 or more is  *)
(* stored as a PanoId, so only a third-party id has the top bit set.       *)
(***************************************************************************)
C14_OverflowIsFatal ==
    /\ [](\A k \in DOMAIN pano_ids_db :
            IsPhotosphere(pano_ids_db[k]) => IsThirdPartyPano(k))
    /\ [][\A c \in DOMAIN callers :
            LET txn == write_txn[1]
                n == Len(callers[c].converted)
            IN ( /\ callers[c].pc = "writing"
                 /\ callers'[c] # callers[c]
                 /\ n < Len(callers[c].ids)
                 /\ GetPanoCount(txn.settings_db) = <<32768, 0>>
                 /\ DecodeProtobufPano(callers[c].ids[n + 1]).str
                       \notin DOMAIN txn.pano_ids_db )
               => /\ callers'[c].pc = "panicked"
                  /\ write_txn' = <<>>
                  /\ pano_ids_db' = pano_ids_db
                  /\ settings_db' = settings_db]_vars
    /\ [][GetPanoCount(settings_db) = <<32768, 0>>
          => pano_ids_db' = pano_ids_db /\ settings_db' = settings_db]_vars

\* a caller has met the full counter
C14_Witness ==
    /\ \E c \in DOMAIN callers : callers[c].pc = "panicked"
    /\ GetPanoCount(settings_db) = <<32768, 0>>
    /\ Cardinality(DOMAIN pano_ids_db) = 2

\* C15: get_panos_at_tile examines the sized tiles over its small tile from
\* zoom 13 to zoom 16 and returns the first whose value, cached or freshly
\* fetched, is a pano list: every tile it examined before had the too-many
\* marker, and after the call the cache serves these values.  Within one
\* call of get_nearby_panos a tile that has won is the winner for every
\* small tile it covers.
C15_CoarsestListWins ==
    /\ [](\A t \in TileTasks :
            tile_tasks[t].op = "get_nearby_panos" =>
            \A j \in 1..Len(tile_tasks[t].winners) : \A i \in 1..(j - 1) :
                LET a == tile_tasks[t].winners[i]
                    b == tile_tasks[t].winners[j]
                    k == 2 ^ (SMALL_TILE_SIZE - a.tile.size)
                IN (b.small.x \div k = a.tile.x /\ b.small.y \div k = a.tile.y)
                   => b.tile = a.tile)
    /\ [][\A t \in TileTasks :
            Len(tile_tasks'[t].winners) = Len(tile_tasks[t].winners) + 1 =>
                LET w == tile_tasks'[t].winners[Len(tile_tasks'[t].winners)]
                    n == Len(w.examined)
                    served(tile) ==
                        IF tile \in DOMAIN PANOS_AT_TILE_CACHE'
                        THEN PANOS_AT_TILE_CACHE'[tile]
                        ELSE DecodeListentityphotos(listentityphotos_db'[tile])
                IN /\ n \in 1..(SMALL_TILE_SIZE - LARGEST_TILE_SIZE + 1)
                   /\ \A i \in 1..n :
                        w.examined[i].tile =
                            [size |-> LARGEST_TILE_SIZE - 1 + i,
                             x |-> w.small.x \div 2 ^ (SMALL_TILE_SIZE - LARGEST_TILE_SIZE + 1 - i),
                             y |-> w.small.y \div 2 ^ (SMALL_TILE_SIZE - LARGEST_TILE_SIZE + 1 - i)]
                   /\ \A i \in 1..(n - 1) :
                        /\ w.examined[i].value = <<>>
                        /\ served(w.examined[i].tile) = <<>>
                   /\ w.examined[n].value = <<w.panos>>
                   /\ w.tile = w.examined[n].tile
                   /\ tile_tasks[t].op = "get_nearby_panos"
                      => /\ w.tile \in DOMAIN PANOS_AT_TILE_CACHE'
                         /\ PANOS_AT_TILE_CACHE'[w.tile] = <<w.panos>>]_vars

\* a query whose two small tiles have the same winner at zoom 15, found
\* after the markers of the zooms 13 and 14
C15_Witness ==
    \E t \in TileTasks :
        /\ tile_tasks[t].op = "get_nearby_panos"
        /\ Len(tile_tasks[t].winners) = 2
        /\ tile_tasks[t].winners[1].small # tile_tasks[t].winners[2].small
        /\ tile_tasks[t].winners[1].tile = tile_tasks[t].winners[2].tile
        /\ tile_tasks[t].winners[1].tile.size = 15
        /\ Len(tile_tasks[t].winners[1].examined) = 3
        /\ Len(tile_tasks[t].winners[1].panos) = 2

C18_ListsSortedByLat ==
    /\ \A tile \in DOMAIN PANOS_AT_TILE_CACHE :
         PANOS_AT_TILE_CACHE[tile] # <<>> =>
            LET list == PANOS_AT_TILE_CACHE[tile][1]
            IN \A i \in 1..(Len(list) - 1) :
                  list[i].search_loc[1] <= list[i + 1].search_loc[1]
    /\ \A tile \in DOMAIN listentityphotos_db :
         listentityphotos_db[tile][1] = 1 =>
            LET list == DecodeListentityphotos(listentityphotos_db[tile])[1]
            IN \A i \in 1..(Len(list) - 1) :
                  list[i].search_loc[1] <= list[i + 1].search_loc[1]

\* a reset has fetched a tile again whose three panos upstream lists in
\* another order than that of their latitudes; the list is in the cache and
\* in the table
C18_Witness ==
    \E t \in TileTasks : \E k \in 1..Len(tile_tasks[t].refetched) :
        LET tile == tile_tasks[t].refetched[k].tile
            res == tile_tasks[t].refetched[k].res
            listed == SelectSeq(upstream,
                         LAMBDA p : \E i \in 1..Len(res[1]) :
                                       res[1][i].search_loc = p.loc)
        IN /\ res # <<>>
           /\ Len(res[1]) = 3
           /\ Len(listed) = 3
           /\ listed[1].loc # res[1][1].search_loc
           /\ tile \in DOMAIN PANOS_AT_TILE_CACHE
           /\ PANOS_AT_TILE_CACHE[tile] = res
           /\ DecodeListentityphotos(listentityphotos_db[tile]) = res

\* C19: the panos get_nearby_panos has collected are those a linear scan
\* collects: the panos p of the list of each winning tile with
\* underestimate_distance_sqr(center, p.search_loc) <= radius^2, list by list
\* in the order of the calls of get_panos_at_tile, the list of a tile that
\* wins for several small tiles taken once; and the call returns with a
\* winner for every small tile its loop visits.
C19_NearbyIsLinearScan ==
    \A t \in TileTasks :
        tile_tasks[t].op = "get_nearby_panos" =>
            LET task == tile_tasks[t]
                n == Len(task.winners)
                first(i) == \A k \in 1..(i - 1) : task.winners[k].tile # task.winners[i].tile
                scan(list) ==
                    SelectSeq(list,
                        LAMBDA p : UnderestimateDistanceSqr(task.loc, p.search_loc)
                                      <= task.min_distance * task.min_distance)
                linear[i \in 0..n] ==
                    IF i = 0 THEN <<>>
                    ELSE IF first(i) THEN linear[i - 1] \o scan(task.winners[i].panos)
                    ELSE linear[i - 1]
            IN /\ task.found_panos = linear[n]
               /\ task.pc = "done" =>
                    [i \in 1..n |-> task.winners[i].small]
                        = TilesToVisit(task.loc, task.min_distance)

\* a query has returned whose two small tiles have the same winner; its list
\* has a pano within the radius and a pano whose latitude is min_lat, and
\* the pano within the radius is in the output once
C19_Witness ==
    \E t \in TileTasks :
        /\ tile_tasks[t].op = "get_nearby_panos"
        /\ tile_tasks[t].pc = "done"
        /\ Len(tile_tasks[t].winners) = 2
        /\ tile_tasks[t].winners[1].tile = tile_tasks[t].winners[2].tile
        /\ \E i \in 1..Len(tile_tasks[t].winners[1].panos) :
              100 * tile_tasks[t].winners[1].panos[i].search_loc[1]
                 = CalculateLatBounds(tile_tasks[t].loc, tile_tasks[t].min_distance)[1]
        /\ Len(tile_tasks[t].found_panos) = 1
        /\ tile_tasks[t].found_panos[1].search_loc = WestPano.loc
        /\ tile_tasks[t].found_panos[1].actual_loc = WestPano.actual

\* C20: reset_cache_nearby drops each winning tile of its area from the cache
\* and sends upstream a request for it although the table has its row; when
\* the call returns, the row of each of these tiles is the result of that
\* fetch, and what the cache holds for the tile, which the next
\* get_panos_at_tile returns, is that result and not the list from before
\* the reset.
C20_ResetServesFetchedResult ==
    /\ [](\A t \in TileTasks :
            (tile_tasks[t].op = "reset_cache_nearby" /\ tile_tasks[t].pc = "done") =>
                /\ Len(tile_tasks[t].refetched) = Len(tile_tasks[t].checked_tiles)
                /\ \A k \in 1..Len(tile_tasks[t].refetched) :
                     LET tile == tile_tasks[t].refetched[k].tile
                         res == tile_tasks[t].refetched[k].res
                     IN /\ tile = tile_tasks[t].checked_tiles[k]
                        /\ listentityphotos_db[tile] = EncodeListentityphotos(res)
                        /\ tile \in DOMAIN PANOS_AT_TILE_CACHE
                           => PANOS_AT_TILE_CACHE[tile] = res)
    /\ [][\A t \in TileTasks :
            (/\ tile_tasks[t].op = "reset_cache_nearby"
             /\ Len(tile_tasks'[t].checked_tiles) = Len(tile_tasks[t].checked_tiles) + 1)
            => LET tile == tile_tasks'[t].checked_tiles[Len(tile_tasks'[t].checked_tiles)]
               IN /\ tile \notin DOMAIN PANOS_AT_TILE_CACHE'
                  /\ tile \in DOMAIN listentityphotos_db'
                  /\ tile_tasks'[t].pc = "request"
                  /\ tile_tasks'[t].tile = tile]_vars

(***************************************************************************)
(* C21.  As stated: while upstream keeps answering without an array,       *)
(* fetch_getmetadata_responses makes at most 10 attempts for the batch and *)
(* then fails the whole batch.                                             *)
(***************************************************************************)
C21_AtMostTenAttempts ==
    getmetadata_fetch # <<>> =>
        /\ getmetadata_fetch[1].attempt_number <= 10
        /\ Len(getmetadata_fetch[1].requests) <= 10

(***************************************************************************)
(* C21, amended.  While upstream keeps answering without an array,         *)
(* fetch_getmetadata_responses sends at most 11 requests for the batch,    *)
(* the first and 10 retries: an answer without an array is retried after   *)
(* each of the attempts 1 to 10 and fails the whole batch after attempt    *)
(* 11, and only then; an array answer at any attempt ends the call with    *)
(* the responses, and no request follows it.                               *)
(***************************************************************************)
C21_AtMostElevenAttempts ==
    /\ [](getmetadata_fetch # <<>> =>
             LET call == getmetadata_fetch[1]
             IN /\ call.attempt_number \in 1..11
                /\ call.requests = [i \in 1..call.attempt_number |-> i]
                /\ (call.pc = "failed" /\ call.error = "Invalid GetMetadata response")
                       => call.attempt_number = 11
                /\ call.pc = "sleep" => call.attempt_number <= 10)
    /\ [][(getmetadata_fetch # <<>> /\ getmetadata_fetch[1].pc = "request"
           /\ getmetadata_fetch' # <<>>) =>
             LET call == getmetadata_fetch[1]
                 after == getmetadata_fetch'[1]
             IN /\ after.requests = call.requests
                /\ after.pc = "returned" =>
                       /\ after.error = ""
                       /\ Len(after.result)
                              = Len(GetMetadataReplies(upstream, call.pano_ids))
                /\ (call.attempt_number = 11 /\ after.pc # "returned")
                       => after.pc \in {"failed", "panicked"}]_vars
    /\ [][(getmetadata_fetch # <<>> /\ getmetadata_fetch[1].pc \in {"returned", "failed"})
             => getmetadata_fetch' = <<>>]_vars

\* upstream never answered with an array: the call failed after its eleventh
\* request
C21_Witness ==
    /\ getmetadata_fetch # <<>>
    /\ getmetadata_fetch[1].pc = "failed"
    /\ getmetadata_fetch[1].error = "Invalid GetMetadata response"
    /\ Len(getmetadata_fetch[1].requests) = 11

(***************************************************************************)
(* C22.  As stated: for a node with heading h and a goal that lies         *)
(* straight ahead of it (on bearing h) at a distance in [15 m, 30 m),      *)
(* is_goal_reached returns true.                                           *)
(***************************************************************************)
GoalAtBearing(node, goal, bearing) ==
    /\ Distance(node.pano.loc, goal) >= GOAL_REACHED
    /\ Distance(node.pano.loc, goal) < GOAL_NEAR
    /\ CalculateHeading(node.pano.loc, goal) = NormDeg(bearing)

C22_GoalAheadIsReached ==
    \A t \in DOMAIN astar :
        \A i \in 1..Len(astar[t].nodes) :
            GoalAtBearing(astar[t].nodes[i].ident, astar[t].goal,
                          astar[t].nodes[i].ident.heading)
                => IsGoalReached(astar[t].nodes[i].ident, astar[t].goal)

(***************************************************************************)
(* C22, amended.  For a node with heading h and a goal at a distance in    *)
(* [15 m, 30 m): when the goal lies straight behind the node (on bearing   *)
(* h + 180) is_goal_reached returns true, through the behind-by-15 m       *)
(* branch, and the search never expands that node; when the goal lies      *)
(* straight ahead (on bearing h) is_goal_reached returns false.            *)
(***************************************************************************)
C22_GoalBehindIsReached ==
    \A t \in DOMAIN astar :
        LET a == astar[t]
        IN /\ \A i \in 1..Len(a.nodes) :
                  /\ GoalAtBearing(a.nodes[i].ident, a.goal, a.nodes[i].ident.heading + 180)
                         => /\ IsGoalReached(a.nodes[i].ident, a.goal)
                            /\ ~WithinGoalReached(a.nodes[i].ident, a.goal)
                            /\ a.expanded # <<>> => a.expanded[1].index # i - 1
                  /\ GoalAtBearing(a.nodes[i].ident, a.goal, a.nodes[i].ident.heading)
                         => ~IsGoalReached(a.nodes[i].ident, a.goal)
           /\ a.pc = "found" => IsGoalReached(a.route[Len(a.route)], a.goal)

\* a search that ended on its start node with the goal 20 m straight behind
\* it
C22_Witness ==
    \E t \in DOMAIN astar :
        LET a == astar[t]
        IN /\ a.pc = "found"
           /\ Len(a.route) = 1
           /\ Distance(a.route[1].pano.loc, a.goal) = 20
           /\ GoalAtBearing(a.route[1], a.goal, a.route[1].heading + 180)

(***************************************************************************)
(* C23.  For every edge relaxed from a node, the base cost is 5.875 s when *)
(* get_options returned exactly one neighbor for that node and 9.625 s     *)
(* otherwise, exactly the first neighbor gets 0.001 s subtracted when      *)
(* there is more than one, and the tentative g_score of the neighbor is    *)
(* the popped g_score plus this cost, plus the intersection penalty when   *)
(* it applies: every map entry an expansion writes points back to the      *)
(* expanded node and holds such a g_score for one of the options, every    *)
(* option that is not skipped ends with an entry no dearer than that, and  *)
(* the heap holds the entry written.                                       *)
(***************************************************************************)
StatedBaseCost(options, j) ==
    (IF Len(options) = 1 THEN 5875 ELSE 9625)
        - (IF j = 1 /\ Len(options) > 1 THEN 1 ELSE 0)

StatedPenalties(options) ==
    IF Len(options) > 1 THEN {0, settings.forward_penalty_on_intersections} ELSE {0}

C23_EdgeCosts ==
    [][\A t \in DOMAIN astar :
         (t \in DOMAIN astar' /\ astar'[t].expanded # astar[t].expanded) =>
           LET e == astar'[t].expanded[1]
               old == astar[t].nodes
               new == astar'[t].nodes
               node == old[e.index + 1].ident
           IN /\ \A i \in 1..Len(new) :
                    (i > Len(old) \/ new[i] # old[i]) =>
                      /\ new[i].came_from = e.index
                      /\ \E j \in 1..Len(e.options) :
                           /\ SameNode([pano |-> e.options[j].pano,
                                        heading |-> e.options[j].heading], new[i].ident)
                           /\ new[i].g_score - e.g_score - StatedBaseCost(e.options, j)
                                  \in StatedPenalties(e.options)
                      /\ \E w \in astar'[t].open_set :
                           w.index = i - 1 /\ w.g_score = new[i].g_score
              /\ \A j \in 1..Len(e.options) :
                    \/ /\ settings.no_long_jumps
                       /\ ApproxDistanceSqr(node.pano.loc, e.options[j].pano.loc) > 500 * 500
                    \/ \E i \in 1..Len(new) :
                         /\ SameNode([pano |-> e.options[j].pano,
                                      heading |-> e.options[j].heading], new[i].ident)
                         /\ \E p \in StatedPenalties(e.options) :
                              new[i].g_score <= e.g_score + StatedBaseCost(e.options, j) + p
                         /\ settings.forward_penalty_on_intersections = 0 =>
                              new[i].g_score <= e.g_score + StatedBaseCost(e.options, j)]_vars

\* an expansion with several options that wrote the first at 9.624 s and
\* another at 9.625 s, and one with a single option written at 5.875 s
C23_Witness ==
    \E t \in DOMAIN astar :
        LET a == astar[t]
        IN /\ a.expanded # <<>>
           /\ Len(a.expanded[1].options) > 1
           /\ \E i, k \in 1..Len(a.nodes) :
                /\ a.nodes[i].came_from = a.expanded[1].index
                /\ a.nodes[k].came_from = a.expanded[1].index
                /\ SameNode([pano |-> a.expanded[1].options[1].pano,
                             heading |-> a.expanded[1].options[1].heading],
                            a.nodes[i].ident)
                /\ a.nodes[i].g_score = a.expanded[1].g_score + 9624
                /\ a.nodes[k].g_score = a.expanded[1].g_score + 9625

C23_WitnessSingle ==
    \E t \in DOMAIN astar :
        LET a == astar[t]
        IN /\ a.expanded # <<>>
           /\ Len(a.expanded[1].options) = 1
           /\ \E i \in 1..Len(a.nodes) :
                /\ a.nodes[i].came_from = a.expanded[1].index
                /\ a.nodes[i].g_score = a.expanded[1].g_score + 5875

(***************************************************************************)
(* C24.  As stated: for every node heading in [0, 360), when the node has  *)
(* more than one neighbor, forward_penalty_on_intersections > 0 and some   *)
(* neighbor turns away from the node's heading by more than 30 degrees,    *)
(* the penalty is added to the cost of every forward neighbor (heading     *)
(* within 30 degrees of the node's heading as an angular difference) and   *)
(* to no other neighbor; when all neighbors are forward no penalty is      *)
(* added.  Every map entry an expansion writes holds the popped g_score    *)
(* plus the base cost plus the penalty so decided.                         *)
(***************************************************************************)
StatedPenalty(options, j, node_heading) ==
    IF /\ Len(options) > 1
       /\ settings.forward_penalty_on_intersections > 0
       /\ \E k \in 1..Len(options) :
              CalculateHeadingDiff(options[k].heading, node_heading) > 30
       /\ CalculateHeadingDiff(options[j].heading, node_heading) < 30
    THEN settings.forward_penalty_on_intersections
    ELSE 0

C24_PenaltyOnForwardNeighbors ==
    [][\A t \in DOMAIN astar :
         (t \in DOMAIN astar' /\ astar'[t].expanded # astar[t].expanded) =>
           LET e == astar'[t].expanded[1]
               old == astar[t].nodes
               new == astar'[t].nodes
               node == old[e.index + 1].ident
           IN (node.heading >= 0 /\ node.heading < 360) =>
                \A i \in 1..Len(new) :
                    (i > Len(old) \/ new[i] # old[i]) =>
                      \E j \in 1..Len(e.options) :
                           /\ SameNode([pano |-> e.options[j].pano,
                                        heading |-> e.options[j].heading], new[i].ident)
                           /\ new[i].g_score = e.g_score + StatedBaseCost(e.options, j)
                                  + StatedPenalty(e.options, j, node.heading)]_vars

(***************************************************************************)
(* C25.  With no_long_jumps set, a neighbor whose planar distance from the *)
(* expanded pano exceeds 500 m is never inserted into the node map or the  *)
(* heap through that edge: every entry an expansion writes, and every heap *)
(* entry it pushes, is for a pano within 500 m of the expanded pano, every *)
(* map entry lies within 500 m of the entry it came from, and no two       *)
(* consecutive panos of a returned route are more than 500 m apart by that *)
(* measure.                                                                *)
(***************************************************************************)
WithinJump(a, b) == ApproxDistanceSqr(a, b) <= 500 * 500

C25_NoLongJumps ==
    /\ [](settings.no_long_jumps =>
            \A t \in DOMAIN astar :
                LET a == astar[t]
                IN /\ \A i \in 1..Len(a.nodes) :
                        a.nodes[i].came_from # SENTINEL =>
                            WithinJump(a.nodes[a.nodes[i].came_from + 1].ident.pano.loc,
                                       a.nodes[i].ident.pano.loc)
                   /\ \A k \in 1..(Len(a.route) - 1) :
                        WithinJump(a.route[k].pano.loc, a.route[k + 1].pano.loc))
    /\ [][settings.no_long_jumps =>
            \A t \in DOMAIN astar :
              (t \in DOMAIN astar' /\ astar'[t].expanded # astar[t].expanded) =>
                LET e == astar'[t].expanded[1]
                    old == astar[t].nodes
                    new == astar'[t].nodes
                    from == old[e.index + 1].ident.pano.loc
                IN /\ \A i \in 1..Len(new) :
                        (i > Len(old) \/ new[i] # old[i]) =>
                            WithinJump(from, new[i].ident.pano.loc)
                   /\ \A w \in astar'[t].open_set \ astar[t].open_set :
                        WithinJump(from, new[w.index + 1].ident.pano.loc)]_vars

\* with no_long_jumps, an expansion whose options held a pano more than
\* 500 m away, which has no entry in the map
C25_Witness ==
    /\ settings.no_long_jumps
    /\ \E t \in DOMAIN astar :
        LET a == astar[t]
        IN /\ a.expanded # <<>>
           /\ \E j \in 1..Len(a.expanded[1].options) :
                /\ ~WithinJump(a.nodes[a.expanded[1].index + 1].ident.pano.loc,
                               a.expanded[1].options[j].pano.loc)
                /\ \A i \in 1..Len(a.nodes) :
                     a.nodes[i].ident.pano.id # a.expanded[1].options[j].pano.id

(***************************************************************************)
(* C26.  Within one A* search at most one expansion obtains its options    *)
(* through a turnaround: get_options returns turnaround = true only if     *)
(* allow_turnaround was passed and the un-flipped call had zero options,   *)
(* and after the first response with turnaround = true every later         *)
(* get_options call of that search is made with allow_turnaround = false.  *)
(***************************************************************************)
C26_OneTurnaround ==
    [][\A t \in DOMAIN astar :
         t \in DOMAIN astar' =>
           /\ ~astar[t].allow_turnaround => ~astar'[t].allow_turnaround
           /\ astar[t].turned_at # SENTINEL =>
                /\ ~astar[t].allow_turnaround
                /\ astar'[t].turned_at = astar[t].turned_at
           /\ astar'[t].expanded # astar[t].expanded =>
                LET e == astar'[t].expanded[1]
                    node == astar[t].nodes[e.index + 1].ident
                    unflipped == GetOptionsNoTurnaround(node.pano, node.heading,
                                     settings.use_option_cache, option_cache,
                                     panos_at_tile, metadata)
                IN /\ e.allow_turnaround = astar[t].allow_turnaround
                   /\ e.turnaround =>
                        /\ e.allow_turnaround
                        /\ unflipped.options = <<>>
                        /\ astar[t].turned_at = SENTINEL
                        /\ astar'[t].turned_at = e.index
                        /\ ~astar'[t].allow_turnaround
                   /\ ~e.turnaround =>
                        /\ e.options = unflipped.options
                        /\ astar'[t].allow_turnaround = astar[t].allow_turnaround]_vars

\* a search that turned around once and later expanded a dead end without
\* turning around
C26_Witness ==
    \E t \in DOMAIN astar :
        LET a == astar[t]
        IN /\ a.turned_at # SENTINEL
           /\ a.expanded # <<>>
           /\ a.expanded[1].index # a.turned_at
           /\ a.expanded[1].options = <<>>
           /\ ~a.expanded[1].allow_turnaround
           /\ ~a.expanded[1].turnaround

(***************************************************************************)
(* C27.  As stated: a turnaround is a starting-only fallback: in any A*    *)
(* search, options computed with the heading flipped by 180 degrees are    *)
(* used only when expanding the start node (entry 0 of the node map),      *)
(* never when expanding a node reached later in the search.                *)
(***************************************************************************)
C27_TurnaroundOnlyAtStart ==
    \A t \in DOMAIN astar :
        /\ astar[t].turned_at \in {SENTINEL, 0}
        /\ (astar[t].expanded # <<>> /\ astar[t].expanded[1].turnaround)
               => astar[t].expanded[1].index = 0

(***************************************************************************)
(* C28.  As stated: every option returned by                               *)
(* get_options_no_turnaround(pano, heading), whether it comes from a       *)
(* published link, a 13 m geometric probe or the reach-further probe, has  *)
(* a heading whose circular difference from the given heading is at most   *)
(* 100 degrees.                                                            *)
(***************************************************************************)
\* the angle between two headings, in [0, 180]
CircularDifference(a, b) ==
    LET d == NormDeg(a - b)
    IN IF d > 180 THEN 360 - d ELSE d

C28_OptionsWithinHundredDegrees ==
    last_options # <<>> =>
        \A i \in 1..Len(last_options[1].options) :
            CircularDifference(last_options[1].options[i].heading,
                               last_options[1].heading) <= 100

\* C28 for the headings a search passes after a query with a heading of -360
\* or more: those in [0, 540)
C28_OptionsWithinHundredDegreesOfUsualHeadings ==
    (last_options # <<>> /\ last_options[1].heading >= 0) =>
        \A i \in 1..Len(last_options[1].options) :
            CircularDifference(last_options[1].options[i].heading,
                               last_options[1].heading) <= 100

(***************************************************************************)
(* C29.  The reach-further rule, applied to the N options left by the link *)
(* and probe steps: leaves them untouched when N > 1 or when N == 1 and    *)
(* the single option's heading differs from cur_heading by 20 degrees or   *)
(* more; when N == 0 it probes 20 m ahead and, if an admissible pano is    *)
(* found, the result is that pano alone; when N == 1 within 20 degrees it  *)
(* probes 30 m ahead and replaces the option by the straight-ahead pano    *)
(* only if neither side probe (at +-45 degrees, distance 30 / 0.707) finds *)
(* a pano other than the straight result and the current pano.  The rule   *)
(* never yields more options than max(N, 1).                               *)
(***************************************************************************)
\* the last call's current pano, the panos near it and the options its link
\* and probe steps leave, for a call that did not answer from the cache
LastCallPano == [id |-> last_options[1].pano_id, loc |-> last_options[1].loc]

LastCallNearby == GetNearbyPanos(panos_at_tile, last_options[1].loc, MAX_SEARCH_RADIUS)

LastCallProbed ==
    ProbeOptions(LastCallPano, OriginPanoOffset(LastCallPano, LastCallNearby),
                 last_options[1].heading, LastCallNearby,
                 LinkOptions(GetGetmetadataLinks(metadata, last_options[1].pano_id),
                             last_options[1].heading), 1)

\* the pano a probe of the last call at the distance and the offset from its
\* heading finds: <<>> or <<pano>>
LastCallProbe(offset, distance) ==
    GetClosestPanoForward(last_options[1].loc,
                          OriginPanoOffset(LastCallPano, LastCallNearby),
                          last_options[1].heading + offset, distance, LastCallNearby)

\* a pano found straight ahead is admissible when it is not the current pano
\* and its bearing is within 100 degrees of the heading
Admissible(found) ==
    /\ found # <<>>
    /\ found[1].id # last_options[1].pano_id
    /\ CalculateHeadingDiff(last_options[1].heading,
                            CalculateHeading(last_options[1].loc, found[1].loc)) <= 100

StraightOption(found) ==
    <<[pano |-> found[1], heading |-> CalculateHeading(last_options[1].loc, found[1].loc)]>>

SideProbeFindsAnother(offset, straight) ==
    LET side == LastCallProbe(offset, 42)
    IN side # <<>> /\ side[1].id # straight[1].id /\ side[1].id # last_options[1].pano_id

C29_ReachFurtherRule ==
    (last_options # <<>> /\ ~last_options[1].use_option_cache) =>
        LET before == LastCallProbed
            after == last_options[1].options
            N == Len(before)
            cur_heading == last_options[1].heading
        IN /\ N > 1 => after = before
           /\ (N = 1 /\ CalculateHeadingDiff(before[1].heading, cur_heading) >= 20)
                  => after = before
           /\ N = 0 =>
                LET straight == LastCallProbe(0, 20)
                IN IF Admissible(straight) THEN after = StraightOption(straight)
                   ELSE after = <<>>
           /\ (N = 1 /\ CalculateHeadingDiff(before[1].heading, cur_heading) < 20) =>
                LET straight == LastCallProbe(0, 30)
                IN IF /\ Admissible(straight)
                      /\ straight[1].id # before[1].pano.id
                      /\ ~SideProbeFindsAnother(-45, straight)
                      /\ ~SideProbeFindsAnother(45, straight)
                   THEN after = StraightOption(straight)
                   ELSE after = before
           /\ Len(after) <= Max(N, 1)

\* a call whose single option straight ahead was replaced by the pano found
\* 30 m ahead
C29_Witness ==
    /\ last_options # <<>>
    /\ ~last_options[1].use_option_cache
    /\ Len(LastCallProbed) = 1
    /\ Len(last_options[1].options) = 1
    /\ last_options[1].options[1].pano.id # LastCallProbed[1].pano.id
    /\ LastCallProbe(0, 30) = <<last_options[1].options[1].pano>>

\* a call whose empty option list was replaced by the pano found 20 m ahead
C29_WitnessAlone ==
    /\ last_options # <<>>
    /\ ~last_options[1].use_option_cache
    /\ LastCallProbed = <<>>
    /\ Len(last_options[1].options) = 1
    /\ LastCallProbe(0, 20) = <<last_options[1].options[1].pano>>

\* a call whose single option straight ahead was kept because a side probe
\* found another pano
C29_WitnessSideBlocked ==
    /\ last_options # <<>>
    /\ ~last_options[1].use_option_cache
    /\ Len(LastCallProbed) = 1
    /\ last_options[1].options = LastCallProbed
    /\ Admissible(LastCallProbe(0, 30))
    /\ LastCallProbe(0, 30)[1].id # LastCallProbed[1].pano.id
    /\ SideProbeFindsAnother(-45, LastCallProbe(0, 30))

(***************************************************************************)
(* C30.  As stated: with zero published links, no candidate pano within    *)
(* 13 m in any of the five probe directions, and one candidate pano 20 m   *)
(* straight ahead, get_options_no_turnaround returns exactly that one      *)
(* pano, and it is produced by the N == 0 branch of the reach-further rule *)
(* (20 m probe, no side check, replacing the empty option set) rather than *)
(* by a 13 m probe.                                                        *)
(***************************************************************************)
\* the last call was made without the cache for a pano of the tile with no
\* published links, and the tile holds besides it one pano, straight ahead
\* at the distance
OnePanoStraightAhead(distance) ==
    /\ last_options # <<>>
    /\ ~last_options[1].use_option_cache
    /\ GetGetmetadataLinks(metadata, last_options[1].pano_id) = <<>>
    /\ Len(panos_at_tile) = 2
    /\ \E i, k \in 1..2 :
         /\ panos_at_tile[i].id = last_options[1].pano_id
         /\ panos_at_tile[i].actual_loc = last_options[1].loc
         /\ panos_at_tile[k].id # last_options[1].pano_id
         /\ panos_at_tile[k].actual_loc =
                PointAtDistance(last_options[1].loc, last_options[1].heading, distance)

\* the pano of the tile that is not the current pano of the last call
TheOtherPano ==
    LET p == CHOOSE q \in {panos_at_tile[k] : k \in 1..Len(panos_at_tile)} :
                 q.id # last_options[1].pano_id
    IN [id |-> p.id, loc |-> p.actual_loc]

C30_TwentyAheadFoundByReachFurther ==
    OnePanoStraightAhead(20) =>
        /\ Len(last_options[1].options) = 1
        /\ last_options[1].options[1].pano = TheOtherPano
        /\ LastCallProbed = <<>>
        /\ LastCallProbe(0, 20) = <<TheOtherPano>>

(***************************************************************************)
(* C30, amended.  With zero published links and one candidate pano         *)
(* straight ahead besides the current pano, get_options_no_turnaround      *)
(* returns exactly that one pano, both when it is 20 m and when it is 30 m *)
(* ahead.  At 20 m it is produced by the straight 13 m probe, whose probe  *)
(* point it is nearer to than the current pano, and the reach-further rule *)
(* (N == 1, 30 m probe) finds the same pano and changes nothing.  At 30 m  *)
(* every 13 m probe finds the current pano only, and the pano is produced  *)
(* by the N == 0 branch of the reach-further rule (20 m probe, no side     *)
(* check, replacing the empty option set).                                 *)
(***************************************************************************)
C30_TwentyAheadFoundByProbe ==
    /\ OnePanoStraightAhead(20) =>
        /\ Len(last_options[1].options) = 1
        /\ last_options[1].options[1].pano = TheOtherPano
        /\ LastCallProbed = last_options[1].options
        /\ LastCallProbe(0, 13) = <<TheOtherPano>>
        /\ LastCallProbe(0, 30) = <<TheOtherPano>>
    /\ OnePanoStraightAhead(30) =>
        /\ Len(last_options[1].options) = 1
        /\ last_options[1].options[1].pano = TheOtherPano
        /\ LastCallProbed = <<>>
        /\ \A k \in 1..Len(ProbeDirections) :
               LastCallProbe(ProbeDirections[k], 13) = <<LastCallPano>>
        /\ LastCallProbe(0, 20) = <<TheOtherPano>>

\* a call that returned the pano 20 m straight ahead
C30_Witness ==
    /\ OnePanoStraightAhead(20)
    /\ last_options[1].options # <<>>
    /\ last_options[1].options[1].pano = TheOtherPano

\* a call that returned the pano 30 m straight ahead
C30_WitnessThirty ==
    /\ OnePanoStraightAhead(30)
    /\ last_options[1].options # <<>>
    /\ last_options[1].options[1].pano = TheOtherPano

(***************************************************************************)
(* find_closest_pano called directly on candidate lists in every order.    *)
(* The candidates lie around a target 13 m east of the origin; each is     *)
(* taken as the code measures it or with an underestimate that falls far   *)
(* short of its distance.                                                  *)
(***************************************************************************)
ClosestTarget == <<0, 13>>

ClosestPositions == {<<1, 0, 0>>, <<2, 0, 20>>, <<3, 0, 30>>, <<4, 9, 9>>}

\* the candidates as the code measures them
AsMeasured == {Measured(<<ScenePano(p)>>, ClosestTarget)[1] : p \in ClosestPositions}

\* the candidates with an eighth of the underestimate
LooselyMeasured == {[c EXCEPT !.underestimated = c.underestimated \div 8] : c \in AsMeasured}

\* the lists of up to three candidates for different panos
ClosestInputs ==
    LET pool == AsMeasured \cup LooselyMeasured
        pairs == {cd \in pool \X pool : cd[1].pano.id # cd[2].pano.id}
        triples == {cde \in pool \X pool \X pool :
                       /\ cde[1].pano.id # cde[2].pano.id
                       /\ cde[3].pano.id \notin {cde[1].pano.id, cde[2].pano.id}}
    IN {<<>>} \cup {<<c>> : c \in pool} \cup pairs \cup triples

ClosestMaxDists == {5, 26}

\* a call of find_closest_pano
CallFindClosestPano ==
    /\ \E measured \in ClosestInputs, max_dist \in ClosestMaxDists :
         math_call' = <<[fn |-> "find_closest_pano", measured |-> measured,
                         max_dist |-> max_dist,
                         found |-> FindClosestMeasured(measured, max_dist)]>>
    /\ UNCHANGED <<searchVars, internVars, tileVars, fetchVars, socketVars>>

\* nothing runs but direct calls of the functions of the geometry
InitMath ==
    /\ panos_at_tile = <<>>
    /\ metadata = <<>>
    /\ option_cache = EmptyCache
    /\ settings = IdleSettings
    /\ astar = NoTasks
    /\ progress_updates = NoTasks
    /\ handler = IdleHandler
    /\ client = NewClient
    /\ last_options = <<>>
    /\ IdleStore

SpecClosest == InitMath /\ [][CallFindClosestPano]_vars

(***************************************************************************)
(* C31.  As stated: for every candidate list (in any order) and any        *)
(* distance underestimate that never exceeds the true distance,            *)
(* find_closest_pano returns the candidate whose true distance to the      *)
(* target is minimal among the candidates whose underestimated squared     *)
(* distance is at most max_dist^2; it returns None exactly when no         *)
(* candidate has an underestimate within max_dist^2, and it never reaches  *)
(* its panic.                                                              *)
(***************************************************************************)
\* the last call was one of find_closest_pano
ClosestCalled == math_call # <<>> /\ math_call[1].fn = "find_closest_pano"

\* the candidates of the last call whose underestimate is within max_dist
WithinMaxDist ==
    {i \in 1..Len(math_call[1].measured) :
        math_call[1].measured[i].underestimated
            <= math_call[1].max_dist * math_call[1].max_dist}

\* None exactly when no candidate is within max_dist, and never the panic
ReturnsNoneWhenNoneWithin ==
    /\ ~math_call[1].found.panicked
    /\ math_call[1].found.closest = <<>> <=> WithinMaxDist = {}

\* a candidate returned is one of those within max_dist
ReturnsOneWithin ==
    math_call[1].found.closest # <<>> =>
        \E i \in WithinMaxDist : math_call[1].measured[i] = math_call[1].found.closest[1]

ReturnsTheClosest ==
    math_call[1].found.closest # <<>> =>
        \A i \in WithinMaxDist :
            math_call[1].found.closest[1].distance_sqr
                <= math_call[1].measured[i].distance_sqr

C31_WitnessNone ==
    /\ ClosestCalled
    /\ Len(math_call[1].measured) = 2
    /\ math_call[1].found.closest = <<>>

(***************************************************************************)
(* calculate_heading_diff called directly on headings of both signs and of *)
(* more than a full turn.                                                  *)
(***************************************************************************)
HeadingStep == 35

NHeadings == 20

\* from -700 to 700
HeadingInputs == {HeadingStep * k : k \in (-NHeadings)..NHeadings}

\* a call of calculate_heading_diff
CallCalculateHeadingDiff ==
    /\ \E a \in HeadingInputs, b \in HeadingInputs :
         math_call' = <<[fn |-> "calculate_heading_diff", a |-> a, b |-> b,
                         diff |-> CalculateHeadingDiff(a, b)]>>
    /\ UNCHANGED <<searchVars, internVars, tileVars, fetchVars, socketVars>>

SpecHeadingDiff == InitMath /\ [][CallCalculateHeadingDiff]_vars

HeadingDiffCalled == math_call # <<>> /\ math_call[1].fn = "calculate_heading_diff"

\* min(|a - b| mod 360, 360 - |a - b| mod 360)
StatedHeadingDiff(a, b) == Min(Abs(a - b) % 360, 360 - (Abs(a - b) % 360))

(***************************************************************************)
(* C32.  As stated: for all headings a and b (including negative values    *)
(* and values of 360 or more), calculate_heading_diff(a, b) lies in        *)
(* [0, 180] and equals min(|a-b| mod 360, 360 - |a-b| mod 360).            *)
(***************************************************************************)
C32_HeadingDiffIsCircular ==
    HeadingDiffCalled =>
        /\ math_call[1].diff >= 0
        /\ math_call[1].diff <= 180
        /\ math_call[1].diff = StatedHeadingDiff(math_call[1].a, math_call[1].b)

\* C32 for two headings of the same sign (zero counts as either): the
\* remainders then differ by less than 360
C32_HeadingDiffIsCircularForSameSign ==
    (HeadingDiffCalled /\ math_call[1].a * math_call[1].b >= 0) =>
        /\ math_call[1].diff >= 0
        /\ math_call[1].diff <= 180
        /\ math_call[1].diff = StatedHeadingDiff(math_call[1].a, math_call[1].b)

\* a call with headings of the same sign beyond a full turn
C32_WitnessSameSign ==
    /\ HeadingDiffCalled
    /\ math_call[1].a = 700
    /\ math_call[1].b = 35
    /\ math_call[1].diff = 55

\* a call with headings of opposite sign whose remainders are more than a
\* full turn apart
C32_WitnessOppositeSign ==
    /\ HeadingDiffCalled
    /\ math_call[1].a = -210
    /\ math_call[1].b = 280
    /\ math_call[1].diff = -130

(***************************************************************************)
(* underestimate_distance_sqr and distance on the sphere.  Here a location *)
(* is <<lat, lng>> in whole degrees, a length is the arc it spans in       *)
(* tenths of a degree, and sines and cosines are taken from the table in   *)
(* thousandths.  The underestimate is rounded down and the distance up, so *)
(* the roundings never make the underestimate exceed the distance.         *)
(***************************************************************************)
\* Angle::calculate_lng_m_per_degree, in thousandths of LAT_M_PER_DEGREE
CalculateLngPerDegree(lat) == CosMilli(lat)

\* underestimate_distance_sqr, in squared tenths of a degree of arc
UnderestimateOnSphere(a, b, approx_lng_per_degree) ==
    LET lat_diff == Abs(a[1] - b[1])
        lng_diff == Abs(a[2] - b[2])
        north == (lat_diff * 999) \div 100
        east == (lng_diff * approx_lng_per_degree * 999) \div 100000
    IN north * north + east * east

\* distance: the haversine arc between two locations whose coordinates are
\* even numbers of degrees, in tenths of a degree
DistanceOnSphere(a, b) ==
    LET delta_theta == Abs(b[1] - a[1])
        delta_lambda == Abs(b[2] - a[2])
        sin_theta == SinMilli(delta_theta \div 2)
        sin_lambda == SinMilli(delta_lambda \div 2)
        hav == sin_theta * sin_theta
               + ((CosMilli(a[1]) * CosMilli(b[1])) \div 1000)
                 * ((sin_lambda * sin_lambda + 999) \div 1000)
    \* twice the least whole angle whose sine is not below the square root
    IN The({20 * Cardinality({t \in 1..90 : SinTable[t] * SinTable[t] < h})
               : h \in {Min(hav, 1000000)}})

LatStep == 20

LngStep == 10

SphereLats == {LatStep * k : k \in -4..4}

SphereLngs == {LngStep * k : k \in 0..11}

\* a call of underestimate_distance_sqr with lng_m_per_deg computed at a, and
\* of distance, for the same pair
CallUnderestimateDistanceSqr ==
    /\ \E a_lat \in SphereLats, b_lat \in SphereLats, b_lng \in SphereLngs :
         LET a == <<a_lat, 0>>
             b == <<b_lat, b_lng>>
         IN math_call' =
                <<[fn |-> "underestimate_distance_sqr", a |-> a, b |-> b,
                   underestimate_sqr |->
                       UnderestimateOnSphere(a, b, CalculateLngPerDegree(a[1])),
                   distance |-> DistanceOnSphere(a, b)]>>
    /\ UNCHANGED <<searchVars, internVars, tileVars, fetchVars, socketVars>>

SpecUnderestimate == InitMath /\ [][CallUnderestimateDistanceSqr]_vars

UnderestimateCalled ==
    math_call # <<>> /\ math_call[1].fn = "underestimate_distance_sqr"

(***************************************************************************)
(* C33.  As stated: for every pair of locations a, b and lng_m_per_deg     *)
(* computed at a, underestimate_distance_sqr(a, b, lng_m_per_deg) is at    *)
(* most the squared haversine distance(a, b).                              *)
(***************************************************************************)
C33_UnderestimateBelowHaversine ==
    UnderestimateCalled =>
        math_call[1].underestimate_sqr <= math_call[1].distance * math_call[1].distance

\* C33 for two locations on one meridian, where the planar distance is the arc
C33_UnderestimateBelowHaversineOnMeridian ==
    (UnderestimateCalled /\ math_call[1].a[2] = math_call[1].b[2]) =>
        math_call[1].underestimate_sqr <= math_call[1].distance * math_call[1].distance

\* a call for a pair 40 degrees apart on a meridian
C33_WitnessMeridian ==
    /\ UnderestimateCalled
    /\ math_call[1].a = <<20, 0>>
    /\ math_call[1].b = <<60, 0>>
    /\ math_call[1].underestimate_sqr = 399 * 399
    /\ math_call[1].distance = 400

\* a call for a pair whose second location is nearer the pole and east of
\* the first
C33_WitnessPoleward ==
    /\ UnderestimateCalled
    /\ math_call[1].a = <<0, 0>>
    /\ math_call[1].b = <<60, 90>>
    /\ math_call[1].underestimate_sqr > math_call[1].distance * math_call[1].distance

(***************************************************************************)
(* SmallTile::is_maybe_within_radius called directly: on the plane, for    *)
(* locations in and around a tile and radii up to the tile's side, and on  *)
(* the sphere, for tiles far from the location.  At the resolution of the  *)
(* sphere (whole degrees) a small tile is a single point.                  *)
(***************************************************************************)
\* SmallTile::is_maybe_within_radius for a tile whose corners are both at
\* the location tile_loc, on the sphere
IsMaybeWithinRadiusOnSphere(tile_loc, loc, radius) ==
    LET min_coords == tile_loc
        max_coords == tile_loc
        closest_coord_in_tile_to_coords ==
            <<Max(min_coords[1], Min(loc[1], max_coords[1])),
              Max(min_coords[2], Min(loc[2], max_coords[2]))>>
    IN \/ /\ loc[1] >= min_coords[1] /\ loc[1] <= max_coords[1]
          /\ loc[2] >= min_coords[2] /\ loc[2] <= max_coords[2]
       \/ UnderestimateOnSphere(loc, closest_coord_in_tile_to_coords,
                                CalculateLngPerDegree(loc[1])) <= radius * radius

\* metres
RadiusCoords == {-430, -400, -200, 0, 1, 30}

RadiusTiles == {[x |-> 8, y |-> 8], [x |-> 7, y |-> 9]}

Radii == {0, 1, 50}

\* degrees
FarLats == {-60, 0, 40}

FarTileLngs == {0, 20, 40, 90}

\* tenths of a degree of arc
FarRadii == {0, 230, 600}

\* a call of is_maybe_within_radius, with the tile of the location
NearCall ==
    \E tile \in RadiusTiles, lat \in RadiusCoords, lng \in RadiusCoords, radius \in Radii :
        math_call' = <<[fn |-> "is_maybe_within_radius", on |-> "plane", tile |-> tile,
                        loc |-> <<lat, -lng>>, radius |-> radius,
                        from_loc |-> FromLoc(<<100 * lat, -100 * lng>>),
                        maybe |-> IsMaybeWithinRadius(tile, <<lat, -lng>>, radius)]>>

FarCall ==
    \E lat \in FarLats, tile_lat \in SphereLats, tile_lng \in FarTileLngs, radius \in FarRadii :
        math_call' = <<[fn |-> "is_maybe_within_radius", on |-> "sphere",
                        tile |-> <<tile_lat, tile_lng>>,
                        loc |-> <<lat, 0>>, radius |-> radius,
                        maybe |-> IsMaybeWithinRadiusOnSphere(<<tile_lat, tile_lng>>,
                                                              <<lat, 0>>, radius)]>>

CallIsMaybeWithinRadius ==
    /\ NearCall \/ FarCall
    /\ UNCHANGED <<searchVars, internVars, tileVars, fetchVars, socketVars>>

SpecTileRadius == InitMath /\ [][CallIsMaybeWithinRadius]_vars

TileRadiusCalled == math_call # <<>> /\ math_call[1].fn = "is_maybe_within_radius"

\* points of the tile: its corners, every hundredth metre and where the
\* location projects onto it
TilePoints(tile, loc) ==
    LET north_west == ToCoords(Sized(tile))
        lats == {north_west[1] - d : d \in {0, 100, 200, 300, SmallTileSide}}
                \cup ({loc[1]} \cap ((north_west[1] - SmallTileSide)..north_west[1]))
        lngs == {north_west[2] + d : d \in {0, 100, 200, 300, SmallTileSide}}
                \cup ({loc[2]} \cap (north_west[2]..(north_west[2] + SmallTileSide)))
    IN lats \X lngs

\* some point of the tile of the last call lies within the radius
SomePointWithinRadius ==
    IF math_call[1].on = "plane"
    THEN \E p \in TilePoints(math_call[1].tile, math_call[1].loc) :
            ApproxDistanceSqr(math_call[1].loc, p) <= math_call[1].radius * math_call[1].radius
    ELSE DistanceOnSphere(math_call[1].loc, math_call[1].tile) <= math_call[1].radius

(***************************************************************************)
(* C34.  As stated: SmallTile::is_maybe_within_radius has no false         *)
(* negatives: for every location loc and radius >= 0 it returns true       *)
(* whenever some point of the tile lies within radius of loc; in           *)
(* particular SmallTile::from_loc(loc).is_maybe_within_radius(loc, r) is   *)
(* true for every loc.                                                     *)
(***************************************************************************)
C34_NoFalseNegatives ==
    TileRadiusCalled =>
        /\ SomePointWithinRadius => math_call[1].maybe
        /\ (math_call[1].on = "plane" /\ math_call[1].tile = math_call[1].from_loc)
               => math_call[1].maybe

\* C34 for the calls on the plane, where the underestimate is below the
\* distance
C34_NoFalseNegativesNearby ==
    (TileRadiusCalled /\ math_call[1].on = "plane") =>
        /\ SomePointWithinRadius => math_call[1].maybe
        /\ math_call[1].tile = math_call[1].from_loc => math_call[1].maybe

\* a call for a location 30 m outside a tile with a radius of 50 m
C34_WitnessNearby ==
    /\ TileRadiusCalled
    /\ math_call[1].on = "plane"
    /\ math_call[1].tile = [x |-> 8, y |-> 8]
    /\ math_call[1].loc = <<30, -30>>
    /\ math_call[1].radius = 50
    /\ math_call[1].from_loc = [x |-> 7, y |-> 7]
    /\ math_call[1].maybe

\* a call on the sphere that misses a tile within the radius
C34_WitnessFar ==
    /\ TileRadiusCalled
    /\ math_call[1].on = "sphere"
    /\ SomePointWithinRadius
    /\ ~math_call[1].maybe

(***************************************************************************)
(* Angle: an i32 whose full range spans -180..180 degrees.  The + and - of *)
(* the impls are the language's operators on i32: when the exact result    *)
(* leaves the range they panic in a build with overflow checks (the debug  *)
(* and test profiles) and wrap in a build without (the release profile).   *)
(* An outcome is [panicked, bits], bits being <<>> after a panic.          *)
(***************************************************************************)
I32_MAX == 2147483647

I32_MIN == -I32_MAX - 1

\* Angle::from_deg of a whole number of degrees: deg * (i32::MAX / 180.),
\* truncated
FromDeg(deg) ==
    LET whole == Abs(deg) * 11930464
        part == (Abs(deg) * 7056) \div 10000
    IN IF deg < 0 THEN -(whole + part) ELSE whole + part

\* i32 + i32
I32Add(a, b, overflow_checks) ==
    IF a >= 0 /\ b >= 0 /\ a > I32_MAX - b
    THEN IF overflow_checks THEN [panicked |-> TRUE, bits |-> <<>>]
         ELSE [panicked |-> FALSE, bits |-> <<((a - (I32_MAX - b)) - 1) + I32_MIN>>]
    ELSE IF a < 0 /\ b < 0 /\ a < I32_MIN - b
    THEN IF overflow_checks THEN [panicked |-> TRUE, bits |-> <<>>]
         ELSE [panicked |-> FALSE, bits |-> <<((a - (I32_MIN - b)) + I32_MAX) + 1>>]
    ELSE [panicked |-> FALSE, bits |-> <<a + b>>]

\* i32 - i32
I32Sub(a, b, overflow_checks) ==
    IF a >= 0 /\ b < 0 /\ a > I32_MAX + b
    THEN IF overflow_checks THEN [panicked |-> TRUE, bits |-> <<>>]
         ELSE [panicked |-> FALSE, bits |-> <<((a - (I32_MAX + b)) - 1) + I32_MIN>>]
    ELSE IF a < 0 /\ b > 0 /\ a < I32_MIN + b
    THEN IF overflow_checks THEN [panicked |-> TRUE, bits |-> <<>>]
         ELSE [panicked |-> FALSE, bits |-> <<((a - (I32_MIN + b)) + I32_MAX) + 1>>]
    ELSE [panicked |-> FALSE, bits |-> <<a - b>>]

\* impl Add for Angle
AngleAdd(self, rhs, overflow_checks) == I32Add(self, rhs, overflow_checks)

\* impl Sub for Angle
AngleSub(self, rhs, overflow_checks) == I32Sub(self, rhs, overflow_checks)

AngleDegrees == {-180, -179, -91, -90, -1, 0, 1, 90, 91, 179, 180}

\* a + b or a - b for two Angles, in either kind of build
CallAngleOp ==
    /\ \E a \in AngleDegrees, b \in AngleDegrees, op \in {"add", "sub"},
          overflow_checks \in BOOLEAN :
         math_call' =
             <<[fn |-> "angle", op |-> op, a |-> FromDeg(a), b |-> FromDeg(b),
                overflow_checks |-> overflow_checks,
                out |-> IF op = "add" THEN AngleAdd(FromDeg(a), FromDeg(b), overflow_checks)
                        ELSE AngleSub(FromDeg(a), FromDeg(b), overflow_checks)]>>
    /\ UNCHANGED <<searchVars, internVars, tileVars, fetchVars, socketVars>>

SpecAngle == InitMath /\ [][CallAngleOp]_vars

AngleCalled == math_call # <<>> /\ math_call[1].fn = "angle"

\* r is a + b (or a - b) modulo 2^32, by 16-bit halves
IsWrapped(r, a, b, op) ==
    LET low(v) == v % 65536
        high(v) == v \div 65536
        lows == IF op = "add" THEN low(a) + low(b) ELSE low(a) - low(b)
        highs == IF op = "add" THEN high(a) + high(b) ELSE high(a) - high(b)
    IN /\ r >= I32_MIN /\ r <= I32_MAX
       /\ low(r) = lows % 65536
       /\ (high(r) - (highs + (lows \div 65536))) % 65536 = 0

\* the exact result of the last operation is outside i32
LeavesRange ==
    LET a == math_call[1].a
        b == IF math_call[1].op = "add" THEN math_call[1].b
             ELSE IF math_call[1].b = I32_MIN THEN I32_MAX ELSE -math_call[1].b
    IN \/ a > 0 /\ b > 0 /\ a - I32_MAX > -b
       \/ a < 0 /\ b < 0 /\ a - I32_MIN < -b

(***************************************************************************)
(* C35.  As stated: Angle addition and subtraction are modular on the      *)
(* 32-bit representation: for all Angles a and b, (a + b).to_bits() and    *)
(* (a - b).to_bits() equal the wrapped two's-complement sum and difference *)
(* of the operands' bits, with no failure when the exact result leaves the *)
(* i32 range (for example the difference of longitudes 179 and -179        *)
(* degrees).                                                               *)
(***************************************************************************)
C35_AngleOpsWrap ==
    AngleCalled =>
        /\ ~math_call[1].out.panicked
        /\ IsWrapped(math_call[1].out.bits[1], math_call[1].a, math_call[1].b,
                     math_call[1].op)

\* C35 for a build without overflow checks, and in every build while the
\* exact result stays in range
C35_AngleOpsWrapWithoutChecks ==
    (AngleCalled /\ (~math_call[1].overflow_checks \/ ~LeavesRange)) =>
        /\ ~math_call[1].out.panicked
        /\ IsWrapped(math_call[1].out.bits[1], math_call[1].a, math_call[1].b,
                     math_call[1].op)

\* the difference of the longitudes 179 and -179 in a build without
\* overflow checks: 2 degrees short of a full turn wraps to -2 degrees
C35_WitnessWraps ==
    /\ AngleCalled
    /\ math_call[1].op = "sub"
    /\ math_call[1].a = FromDeg(179)
    /\ math_call[1].b = FromDeg(-179)
    /\ ~math_call[1].overflow_checks
    /\ LeavesRange
    /\ math_call[1].out = [panicked |-> FALSE, bits |-> <<-23860932>>]

\* the same difference in a build with overflow checks
C35_WitnessPanics ==
    /\ AngleCalled
    /\ math_call[1].op = "sub"
    /\ math_call[1].a = FromDeg(179)
    /\ math_call[1].b = FromDeg(-179)
    /\ math_call[1].overflow_checks
    /\ math_call[1].out.panicked

(***************************************************************************)
(* C36.  A node is expanded (its options queried and its neighbors         *)
(* relaxed) only by a heap entry whose g_score equals the node's current   *)
(* g_score in the node map; an entry popped with a larger g_score relaxes  *)
(* nothing, and because an entry is pushed only on insertion or strict     *)
(* improvement, a node is expanded at most once per g_score value it ever  *)
(* held.  As a property of every step of the loop: the entry popped never  *)
(* has a smaller g_score than its node; a step that queries options,       *)
(* changes the map or pushes has popped an entry of equal g_score; a step  *)
(* that popped a larger one changes nothing but the heap and the count;    *)
(* no g_score in the map rises; and every entry pushed is for a new node   *)
(* or has a g_score strictly below the one its node had, so that the       *)
(* entry (node, g_score) spent by an expansion is never in the heap again. *)
(***************************************************************************)
\* the step of task t popped the entry
Popped(t, popped) ==
    /\ astar[t].pc = "loop"
    /\ astar'[t].nodes_considered = astar[t].nodes_considered + 1
    /\ popped \in astar[t].open_set \ astar'[t].open_set

\* the step of task t queried options, changed the node map or pushed
ExpandsOrRelaxes(t) ==
    \/ astar'[t].expanded # astar[t].expanded
    \/ astar'[t].nodes # astar[t].nodes
    \/ astar'[t].open_set \ astar[t].open_set # {}
    \/ option_cache' # option_cache

\* every entry the step of task t pushed is for a node inserted by the step
\* or for one whose g_score it lowered, and carries a g_score the node held
\* in the step
PushedOnImprovement(t) ==
    \A e \in astar'[t].open_set \ astar[t].open_set :
        /\ e.index >= Len(astar[t].nodes)
             \/ e.g_score < astar[t].nodes[e.index + 1].g_score
        /\ e.index < Len(astar'[t].nodes)
        /\ astar'[t].nodes[e.index + 1].g_score <= e.g_score

ExpansionStep(t) ==
    /\ \A popped \in astar[t].open_set :
         Popped(t, popped) =>
             /\ popped.g_score >= astar[t].nodes[popped.index + 1].g_score
             /\ ExpandsOrRelaxes(t)
                  => popped.g_score = astar[t].nodes[popped.index + 1].g_score
             /\ popped.g_score > astar[t].nodes[popped.index + 1].g_score
                  => /\ ~ExpandsOrRelaxes(t)
                     /\ astar'[t].open_set = astar[t].open_set \ {popped}
             /\ astar'[t].expanded # astar[t].expanded
                  => /\ astar'[t].expanded[1].index = popped.index
                     /\ astar'[t].expanded[1].g_score = popped.g_score
    /\ astar[t].pc = "loop" =>
         /\ ExpandsOrRelaxes(t) => \E popped \in astar[t].open_set : Popped(t, popped)
         /\ PushedOnImprovement(t)
         /\ \A k \in 1..Len(astar[t].nodes) :
                astar'[t].nodes[k].g_score <= astar[t].nodes[k].g_score

C36_ExpandedOncePerGScore ==
    [][\A t \in DOMAIN astar : ExpansionStep(t)]_vars

\* a node has just been expanded for its current g_score while an older
\* entry for it, with a larger g_score, is still in the heap
C36_Witness ==
    \E t \in DOMAIN astar :
        /\ astar[t].pc = "loop"
        /\ astar[t].expanded # <<>>
        /\ astar[t].expanded[1].g_score
               = astar[t].nodes[astar[t].expanded[1].index + 1].g_score
        /\ \E e \in astar[t].open_set :
               /\ e.index = astar[t].expanded[1].index
               /\ e.g_score > astar[t].expanded[1].g_score

\* a node that was expanded and whose g_score was then lowered by a later
\* expansion: it is to be expanded again
C36_WitnessImproved ==
    \E t \in DOMAIN astar :
        /\ astar[t].pc = "loop"
        /\ astar[t].expanded # <<>>
        /\ \E k \in 1..Len(astar[t].nodes) :
               /\ astar[t].nodes[k].came_from = astar[t].expanded[1].index
               /\ \E e \in astar[t].open_set :
                      e.index = k - 1 /\ e.g_score > astar[t].nodes[k].g_score

(***************************************************************************)
(* C37.  As stated: every percent_done value an A* task writes into its    *)
(* progress slot lies between 0 and 1 inclusive, so a running search never *)
(* publishes a negative value.                                             *)
(***************************************************************************)
C37_PercentWithinUnit ==
    \A t \in DOMAIN progress_updates :
        /\ progress_updates[t].percent_done >= 0
        /\ progress_updates[t].percent_done <= PERCENT_ONE

\* the upper half of C37: no value written is above 1
C37_PercentAtMostOne ==
    \A t \in DOMAIN progress_updates : progress_updates[t].percent_done <= PERCENT_ONE

\* a running search has published a percent_done between 0 and 1
C37_WitnessWithin ==
    \E t \in DOMAIN progress_updates :
        /\ astar[t].pc = "loop"
        /\ progress_updates[t].estimated_seconds_remaining = 1
        /\ progress_updates[t].percent_done > 0
        /\ progress_updates[t].percent_done < PERCENT_ONE

\* a running search has published a negative percent_done
C37_WitnessNegative ==
    \E t \in DOMAIN progress_updates :
        /\ astar[t].pc = "loop"
        /\ progress_updates[t].estimated_seconds_remaining = 1
        /\ progress_updates[t].percent_done < 0

(***************************************************************************)
(* The sockets of /path (src/src/web/path.rs, handle_socket) and the       *)
(* per-client task table (src/src/web/ratelimit.rs).  Each socket has a    *)
(* receive loop, an is_pathing flag, a channel and a sender task that      *)
(* forwards the channel to the client.  A message spawns a task, which the *)
(* receive loop then registers under the client's rate-limit key, aborting *)
(* the task registered before.  The runtime is multi-threaded: a task that *)
(* is being polled when it is aborted runs on to its next await, a task    *)
(* that is not is never polled again.  What a pathfinding task computes is *)
(* left open here: each of its updates carries some percent_done, or it    *)
(* ends with an error.  A header is <<>> when X-Forwarded-For is missing   *)
(* or does not parse, else <<the four octets of the IPv4 address>>.        *)
(***************************************************************************)
NSockets == 2

\* the messages the clients send in all
MaxMessages == 2

\* the updates a pathfinding task sends
MaxTicks == 2

\* path.rs:89  mpsc::channel::<SocketEvent>(1)
CHANNEL_BUFFER == 1

\* ip_from_headers with RatelimitIp::from: the first three octets
IpFromHeaders(headers) ==
    IF headers = <<>> THEN <<0, 0, 0, 0>>
    ELSE <<headers[1][1], headers[1][2], headers[1][3], 0>>

\* FullProgressUpdate::clear, as far as the sender task looks at it
ClearUpdate(task) == [type |-> "progress", task |-> task, percent_done |-> -PERCENT_ONE]

\* JoinHandle::abort
AbortTask(tasks, i) ==
    [tasks EXCEPT ![i] =
        IF @.pc \in {"done", "cancelled"} THEN @
        ELSE IF @.pc = "running" THEN [@ EXCEPT !.aborted = TRUE]
        ELSE [@ EXCEPT !.aborted = TRUE, !.pc = "cancelled"]]

\* a close that leaves the registered task alone
AbortNothing(tasks, i) == tasks

\* where a polled task stands at its next await
AtAwait(task, pc) == [task EXCEPT !.pc = IF task.aborted THEN "cancelled" ELSE pc]

\* the receive loop takes a message: sets is_pathing and spawns the task
SocketReceives(s) ==
    /\ sockets[s].pc = "receiving"
    /\ Len(socket_tasks) < MaxMessages
    /\ \E kind \in {"path", "abort", "invalid"} :
         socket_tasks' = Append(socket_tasks,
             [socket |-> s, kind |-> kind, pc |-> "spawned", aborted |-> FALSE,
              parked |-> FALSE, ticks |-> 0])
    /\ sockets' = [sockets EXCEPT ![s] =
           [@ EXCEPT !.is_pathing = TRUE, !.pc = "starting",
                     !.pending = Len(socket_tasks) + 1]]
    /\ UNCHANGED <<pathfinding_tasks, searchVars, internVars, tileVars, fetchVars, mathVars>>

\* AppState::start_pathfinding_task, called by the receive loop for the task
\* it has just spawned
StartPathfindingTask(s) ==
    LET ip == IpFromHeaders(sockets[s].headers)
        aborted == IF ip \in DOMAIN pathfinding_tasks
                   THEN AbortTask(socket_tasks, pathfinding_tasks[ip])
                   ELSE socket_tasks
    IN /\ sockets[s].pc = "starting"
       /\ socket_tasks' = aborted
       /\ pathfinding_tasks' =
              [k \in DOMAIN pathfinding_tasks \cup {ip} |->
                  IF k = ip THEN sockets[s].pending ELSE pathfinding_tasks[k]]
       /\ sockets' = [sockets EXCEPT ![s] = [@ EXCEPT !.pc = "receiving", !.pending = 0]]
       /\ UNCHANGED <<searchVars, internVars, tileVars, fetchVars, mathVars>>

\* the receive loop ends: the sender task is aborted and, when is_pathing is
\* set, AppState::stop_pathfinding_task removes and aborts the registered task
SocketCloses(s) ==
    LET ip == IpFromHeaders(sockets[s].headers)
        stops == sockets[s].is_pathing /\ ip \in DOMAIN pathfinding_tasks
    IN /\ sockets[s].pc = "receiving"
       /\ sockets' = [sockets EXCEPT ![s] =
              [@ EXCEPT !.pc = "closed", !.sender_alive = FALSE]]
       /\ socket_tasks' = IF stops THEN AbortTask(socket_tasks, pathfinding_tasks[ip])
                          ELSE socket_tasks
       /\ pathfinding_tasks' =
              IF stops THEN [k \in DOMAIN pathfinding_tasks \ {ip} |-> pathfinding_tasks[k]]
              ELSE pathfinding_tasks
       /\ UNCHANGED <<searchVars, internVars, tileVars, fetchVars, mathVars>>

\* a pathfinding task is polled: for the first time, or after its sleep
TaskWakes(i) ==
    /\ socket_tasks[i].kind = "path"
    /\ socket_tasks[i].pc \in {"spawned", "sleeping"}
    /\ socket_tasks' = [socket_tasks EXCEPT ![i] = [@ EXCEPT !.pc = "running"]]
    /\ UNCHANGED <<sockets, pathfinding_tasks, searchVars, internVars, tileVars,
                   fetchVars, mathVars>>

\* a polled pathfinding task sends its update, or an error, and goes on to
\* its next await; a send to a closed socket ends the task
TaskSends(i) ==
    LET task == socket_tasks[i]
        s == task.socket
        full == Len(sockets[s].channel) + 1 > CHANNEL_BUFFER
    IN /\ task.kind = "path"
       /\ task.pc = "running"
       /\ IF ~sockets[s].sender_alive
          THEN /\ socket_tasks' = [socket_tasks EXCEPT ![i] = [@ EXCEPT !.pc = "done"]]
               /\ UNCHANGED sockets
          ELSE IF task.parked
          THEN /\ task.aborted
               /\ socket_tasks' = [socket_tasks EXCEPT ![i] = [@ EXCEPT !.pc = "cancelled"]]
               /\ UNCHANGED sockets
          ELSE \/ /\ task.ticks < MaxTicks
                  /\ \E percent_done \in {-400, 500, PERCENT_ONE} :
                       /\ sockets' = [sockets EXCEPT ![s] = [@ EXCEPT !.channel =
                              Append(@, [type |-> "progress", task |-> i,
                                         percent_done |-> percent_done])]]
                       /\ socket_tasks' = [socket_tasks EXCEPT ![i] =
                              AtAwait([@ EXCEPT !.parked = full, !.ticks = @ + 1],
                                      IF percent_done = PERCENT_ONE THEN "done"
                                      ELSE "sleeping")]
               \/ /\ task.ticks = 0
                  /\ sockets' = [sockets EXCEPT ![s] = [@ EXCEPT !.channel =
                         Append(@, [type |-> "error", task |-> i, percent_done |-> 0])]]
                  /\ socket_tasks' = [socket_tasks EXCEPT ![i] = [@ EXCEPT !.pc = "done"]]
       /\ UNCHANGED <<pathfinding_tasks, searchVars, internVars, tileVars, fetchVars,
                      mathVars>>

\* the task of an abort message sends the clear update, the task of a
\* message that does not parse an error
HandlerRuns(i) ==
    LET task == socket_tasks[i]
        s == task.socket
        event == IF task.kind = "abort" THEN ClearUpdate(i)
                 ELSE [type |-> "error", task |-> i, percent_done |-> 0]
    IN /\ task.kind \in {"abort", "invalid"}
       /\ task.pc = "spawned"
       /\ socket_tasks' = [socket_tasks EXCEPT ![i] = [@ EXCEPT !.pc = "done"]]
       /\ sockets' = IF sockets[s].sender_alive
                     THEN [sockets EXCEPT ![s] = [@ EXCEPT !.channel = Append(@, event)]]
                     ELSE sockets
       /\ UNCHANGED <<pathfinding_tasks, searchVars, internVars, tileVars, fetchVars,
                      mathVars>>

\* the sender task takes the next event off the channel, clears is_pathing
\* on an error and on a percent_done of 1 or below 0, and sends it on
SenderDelivers(s) ==
    LET msg == Head(sockets[s].channel)
    IN /\ sockets[s].sender_alive
       /\ sockets[s].channel # <<>>
       /\ sockets' = [sockets EXCEPT ![s] =
              [@ EXCEPT !.channel = Tail(@),
                        !.received = Append(@, msg),
                        !.is_pathing =
                            IF \/ msg.type = "error"
                               \/ msg.percent_done = PERCENT_ONE
                               \/ msg.percent_done < 0
                            THEN FALSE ELSE @]]
       /\ socket_tasks' = [i \in 1..Len(socket_tasks) |->
              IF socket_tasks[i].socket = s
              THEN [socket_tasks[i] EXCEPT !.parked = FALSE]
              ELSE socket_tasks[i]]
       /\ UNCHANGED <<pathfinding_tasks, searchVars, internVars, tileVars, fetchVars,
                      mathVars>>

NewSocket(headers) ==
    [headers |-> headers, pc |-> "receiving", pending |-> 0, is_pathing |-> FALSE,
     channel |-> <<>>, received |-> <<>>, sender_alive |-> TRUE]

InitSockets ==
    /\ panos_at_tile = <<>>
    /\ metadata = <<>>
    /\ option_cache = EmptyCache
    /\ settings = IdleSettings
    /\ astar = NoTasks
    /\ progress_updates = NoTasks
    /\ handler = IdleHandler
    /\ client = NewClient
    /\ last_options = <<>>
    /\ IdleIntern /\ IdleTiles /\ IdleFetch /\ IdleMath
    /\ \E first \in {<<>>, <<<<10, 0, 0, 1>>>>}, second \in {<<>>, <<<<10, 0, 0, 2>>>>} :
         sockets = [s \in 1..NSockets |->
                       NewSocket(IF s = 1 THEN first ELSE second)]
    /\ socket_tasks = <<>>
    /\ pathfinding_tasks = <<>>

NextSockets ==
    \/ \E s \in DOMAIN sockets : SocketReceives(s)
    \/ \E s \in DOMAIN sockets : StartPathfindingTask(s)
    \/ \E s \in DOMAIN sockets : SocketCloses(s)
    \/ \E s \in DOMAIN sockets : SenderDelivers(s)
    \/ \E i \in DOMAIN socket_tasks : TaskWakes(i)
    \/ \E i \in DOMAIN socket_tasks : TaskSends(i)
    \/ \E i \in DOMAIN socket_tasks : HandlerRuns(i)

SpecSockets == InitSockets /\ [][NextSockets]_vars

\* the task most recently started through the socket, 0 if none
LastStartedBy(s) ==
    LET own == {i \in 1..Len(socket_tasks) :
                   socket_tasks[i].socket = s /\ sockets[s].pending # i}
    IN IF own = {} THEN 0 ELSE CHOOSE i \in own : \A j \in own : j <= i

\* the step closes the socket
Closes(s) == sockets[s].pc # "closed" /\ sockets'[s].pc = "closed"

\* the step aborts the task: abort is called on it while it has not ended
Aborts(i) ==
    /\ socket_tasks[i].pc \notin {"done", "cancelled"}
    /\ ~socket_tasks[i].aborted
    /\ socket_tasks'[i].aborted

(***************************************************************************)
(* C38.  As stated: when a websocket closes, a pathfinding task is aborted *)
(* only if that task was started by this websocket: for every interleaving *)
(* of two sockets whose clients map to the same rate-limit key, closing    *)
(* one socket never aborts the task most recently started through the      *)
(* other socket.                                                           *)
(***************************************************************************)
C38_CloseAbortsOwnTaskOnly ==
    [][\A s \in DOMAIN sockets, o \in DOMAIN sockets :
          (/\ s # o
           /\ IpFromHeaders(sockets[s].headers) = IpFromHeaders(sockets[o].headers)
           /\ Closes(s)
           /\ LastStartedBy(o) # 0)
              => ~Aborts(LastStartedBy(o))]_vars

\* C38 for the closes of a socket that has not taken a message since its
\* channel last carried an error, a clear or a finished update, and for
\* sockets with different keys: no task of another socket is aborted
C38_CloseOfIdleSocketAbortsNothing ==
    [][\A s \in DOMAIN sockets :
          (Closes(s) /\ \/ ~sockets[s].is_pathing
                        \/ \A o \in DOMAIN sockets \ {s} :
                              IpFromHeaders(sockets[s].headers)
                                  # IpFromHeaders(sockets[o].headers))
              => \A i \in 1..Len(socket_tasks) :
                    socket_tasks[i].socket # s => ~Aborts(i)]_vars

\* a socket closed while the table held a running task of the other socket,
\* which is now aborted
C38_WitnessOtherAborted ==
    \E s \in DOMAIN sockets, i \in DOMAIN socket_tasks :
        /\ sockets[s].pc = "closed"
        /\ socket_tasks[i].socket # s
        /\ sockets[socket_tasks[i].socket].pc = "receiving"
        /\ socket_tasks[i].kind = "path"
        /\ socket_tasks[i].aborted
        /\ \A j \in DOMAIN socket_tasks : j <= i
        /\ pathfinding_tasks = <<>>

\* a socket closed and its own running task was aborted
C38_WitnessOwnAborted ==
    \E s \in DOMAIN sockets, i \in DOMAIN socket_tasks :
        /\ sockets[s].pc = "closed"
        /\ socket_tasks[i].socket = s
        /\ socket_tasks[i].kind = "path"
        /\ socket_tasks[i].aborted
        /\ Len(socket_tasks) = 1

\* the event is the clear update sent for an abort message
IsClear(msg) == msg.type = "progress" /\ socket_tasks[msg.task].kind = "abort"

(***************************************************************************)
(* C39.  As stated: after the server handles an abort message for a        *)
(* socket, the last message that socket's client receives is the clear     *)
(* update (percent_done = -1): no progress message of the aborted          *)
(* pathfinding task, a task started on the socket before the abort         *)
(* message, is delivered after the clear.                                  *)
(***************************************************************************)
C39_ClearIsLast ==
    \A s \in DOMAIN sockets :
        \A j \in 1..Len(sockets[s].received), k \in 1..Len(sockets[s].received) :
            (j < k /\ IsClear(sockets[s].received[j]))
                => ~(/\ socket_tasks[sockets[s].received[k].task].kind = "path"
                     /\ sockets[s].received[k].type = "progress"
                     /\ sockets[s].received[k].task < sockets[s].received[j].task)

\* the client received an update of the task, then the clear, and the task
\* stands cancelled
C39_WitnessClearLast ==
    \E s \in DOMAIN sockets :
        /\ Len(sockets[s].received) = 2
        /\ sockets[s].received[1].task = 1
        /\ sockets[s].received[1].percent_done = 500
        /\ sockets[s].received[2] = ClearUpdate(2)
        /\ socket_tasks[1].pc = "cancelled"
        /\ sockets[s].channel = <<>>

\* the client received the clear and then an update of the aborted task
C39_WitnessProgressAfterClear ==
    \E s \in DOMAIN sockets :
        /\ Len(sockets[s].received) = 2
        /\ sockets[s].received[1] = ClearUpdate(2)
        /\ sockets[s].received[2].task = 1
        /\ sockets[s].received[2].percent_done = 500
        /\ socket_tasks[1].pc = "cancelled"

\* a request of uncached_get_panos_at_sized_tile for the tile is out, or its
\* answer is not stored yet
FetchInFlight(tile) ==
    \E t \in TileTasks : tile_tasks[t].pc \in {"request", "store"} /\ tile_tasks[t].tile = tile

\* the entry of the tile in PANOS_AT_TILE_CACHE is what lookup_listentityphotos
\* reads from the table for it
CoherentEntry(tile) ==
    LookupListentityphotos(listentityphotos_db, tile) = <<PANOS_AT_TILE_CACHE[tile]>>

(***************************************************************************)
(* C40.  As stated: the in-memory tile LRU is coherent with the            *)
(* listentityphotos table: in every state reached by interleaving the      *)
(* get_panos_at_tile calls of pathfinding tasks with reset_cache_nearby,   *)
(* once no fetch is in flight for a tile, an LRU entry for that tile       *)
(* equals the table's row for it.                                          *)
(***************************************************************************)
C40_CacheEqualsTable ==
    \A tile \in DOMAIN PANOS_AT_TILE_CACHE :
        ~FetchInFlight(tile) => CoherentEntry(tile)

\* no fetch is in flight, the cache has a list for a tile and the table has
\* the same list
C40_WitnessCoherent ==
    \E tile \in DOMAIN PANOS_AT_TILE_CACHE :
        /\ \A t \in TileTasks : tile_tasks[t].pc = "idle"
        /\ PANOS_AT_TILE_CACHE[tile] # <<>>
        /\ CoherentEntry(tile)

\* no fetch is in flight, the cache has a list for a tile and the table has
\* the too-many marker
C40_WitnessListOverMarker ==
    \E tile \in DOMAIN PANOS_AT_TILE_CACHE :
        /\ \A t \in TileTasks : tile_tasks[t].pc = "idle"
        /\ PANOS_AT_TILE_CACHE[tile] # <<>>
        /\ LookupListentityphotos(listentityphotos_db, tile) = <<<<>>>>

====
